---- MODULE Spec2Model ----
(***************************************************************************)
(* A model of the Hand-Controlled-Predator game: the p5 sketch of the      *)
(* FishGame component (its refs, p.draw, updateGameLogic, spawnEnemy,      *)
(* resetGame, windowResized) and the part of App that holds the React      *)
(* state the sketch reports to.                                            *)
(*                                                                         *)
(* Numbers.  The program computes in floating point; the model computes in *)
(* fixed point with floor division:                                        *)
(*   lengths, sizes, velocities : 1/UnitsPerPixel of a pixel               *)
(*   health                     : 1/HealthUnits of a health point          *)
(*   times                      : milliseconds                             *)
(*   danger, noise, sines       : thousandths                              *)
(*   damage flash               : hundredths                               *)
(*   scaleFactor                : min(width, height), i.e. 800 * sf        *)
(***************************************************************************)
EXTENDS Integers, Sequences, FiniteSets, TLC

VARIABLES
    \* --- React state of App, and the updates queued for the next render
    gameState, pendingGameState, score, pendingScore,
    finalSize, causeOfDeath, highScores,
    \* --- the p5 instance
    width, height, millis, frameCount,
    \* --- refs of FishGame
    scaleFactor, player, enemies, particles, shockwaves, plankton, bubbles,
    scoreRef, lastSpawnTime, dangerIntensity, playerHealth, invulnTimer,
    screenShake, damageEffectVal, lastVideoTime, handLandmarkerRef,
    \* --- history: what the last step did, the sessions started, ids handed
    \* out, the calls of onGameOver in the session, what the hand tracker
    \* gave the last frame of the sketch, the draws spawnEnemy took in it
    log, activeSpawnInterval, sessions, nextId, gameOverCalls, handResult,
    spawnDraw,
    \* --- resources: the AudioContext audioCtxRef points to ("null", "open"
    \* or "closed"), the AudioContexts open, the p5 instances not removed
    audioCtxRef, openContexts, p5Instances

appVars == <<gameState, pendingGameState, score, pendingScore,
             finalSize, causeOfDeath, highScores>>
p5Vars == <<width, height, millis, frameCount>>
refVars == <<scaleFactor, player, enemies, particles, shockwaves, plankton,
             bubbles, scoreRef, lastSpawnTime, dangerIntensity, playerHealth,
             invulnTimer, screenShake, damageEffectVal, lastVideoTime,
             handLandmarkerRef>>
histVars == <<log, activeSpawnInterval, sessions, nextId, gameOverCalls,
              handResult, spawnDraw>>
mountVars == <<audioCtxRef, openContexts, p5Instances>>
vars == <<appVars, p5Vars, refVars, histVars, mountVars>>

----------------------------------------------------------------------------
\* Bounds of the exploration

\* frames drawn by the sketch of the first PLAYING session
MaxFrames == 36
\* frames drawn by every other sketch (LOADING, MENU, GAME_OVER, later sessions)
MaxIdleFrames == 2
\* enemies alive at once
MaxEnemies == 3
\* PLAYING sessions started
MaxSessions == 2

----------------------------------------------------------------------------
\* Fixed point

UnitsPerPixel == 40
HealthUnits == 20
\* spawn sizes are drawn on this grid, so that 10% of a size is a whole unit
SizeGrain == 10

Min(a, b) == IF a < b THEN a ELSE b
Max(a, b) == IF a > b THEN a ELSE b

\* p.constrain(v, lo, hi)
Constrain(v, lo, hi) == Max(Min(v, hi), lo)

\* p.lerp(a, b, t), t in thousandths
Lerp(a, b, t) == a + ((b - a) * t) \div 1000

\* p.map(v, a, b, c, d) without clamping (a # b)
Map(v, a, b, c, d) ==
    IF b > a THEN c + ((d - c) * (v - a)) \div (b - a)
             ELSE c + ((d - c) * (a - v)) \div (a - b)

\* k * sf in length units, k in tenths (k10 = 10 * k)
SfT(k10) == (k10 * UnitsPerPixel * scaleFactor) \div 8000
Sf(k) == SfT(10 * k)
\* the same for the scale factor about to be stored
SfOf(k, sfv) == (k * UnitsPerPixel * sfv) \div 800

\* Math.floor(len / sf), len in length units
FloorDivSf(len) == (len * 800) \div (UnitsPerPixel * scaleFactor)

RECURSIVE IsqrtIter(_, _, _)
IsqrtIter(n, lo, hi) ==
    IF lo >= hi THEN lo
    ELSE LET mid == (lo + hi + 1) \div 2
         IN IF mid * mid <= n THEN IsqrtIter(n, mid, hi)
                              ELSE IsqrtIter(n, lo, mid - 1)
Isqrt(n) == IsqrtIter(n, 0, 46340)

\* p.dist(x1, y1, x2, y2), rounded down to a whole unit
Dist(x1, y1, x2, y2) == Isqrt((x2 - x1) * (x2 - x1) + (y2 - y1) * (y2 - y1))

\* p.cos(p.atan2(dy, dx)) and p.sin(p.atan2(dy, dx)), in thousandths
CosAtan2(dy, dx) ==
    LET d == Dist(0, 0, dx, dy) IN IF d = 0 THEN 1000 ELSE (dx * 1000) \div d
SinAtan2(dy, dx) ==
    LET d == Dist(0, 0, dx, dy) IN IF d = 0 THEN 0 ELSE (dy * 1000) \div d

\* len / sf and len * sf, in length units
DivSf(len) == (len * 800) \div scaleFactor
MulSf(len) == (len * scaleFactor) \div 800

\* p.random(lo, hi) for the draw t in thousandths, 0 <= t < 1000
RandomRange(lo, hi, t) == lo + ((hi - lo) * t) \div 1000

\* p.random(lo, hi) for a size: the draw moved onto the size grid when the
\* grid has a point in [lo, hi) next to it
RandomSize(lo, hi, t) ==
    LET v == RandomRange(lo, hi, t)
        down == (v \div SizeGrain) * SizeGrain
        up == down + SizeGrain
    IN IF down >= lo THEN down ELSE IF up < hi THEN up ELSE v

----------------------------------------------------------------------------
\* Program constants

maxHealth == 100
MaxHP == maxHealth * HealthUnits

RemoveAt(seq, i) == SubSeq(seq, 1, i - 1) \o SubSeq(seq, i + 1, Len(seq))

Repeat(x, n) == [k \in 1..n |-> x]

----------------------------------------------------------------------------
\* The refs of the sketch as one record, threaded through a frame

\* no call of spawnEnemy: no draws
NoDraw == [prey |-> 0, band |-> 0, size |-> 0, speed |-> 0, y |-> 0, side |-> 0]

Refs ==
    [player |-> player, enemies |-> enemies, particles |-> particles,
     shockwaves |-> shockwaves, scoreRef |-> scoreRef,
     lastSpawnTime |-> lastSpawnTime, dangerIntensity |-> dangerIntensity,
     playerHealth |-> playerHealth, invulnTimer |-> invulnTimer,
     screenShake |-> screenShake, damageEffectVal |-> damageEffectVal,
     lastVideoTime |-> lastVideoTime,
     pendingScore |-> pendingScore, pendingGameState |-> pendingGameState,
     finalSize |-> finalSize, causeOfDeath |-> causeOfDeath,
     activeSpawnInterval |-> activeSpawnInterval, nextId |-> nextId,
     maxDanger |-> 0, log |-> <<>>, spawnDraw |-> NoDraw]

\* One entry of the log: what happened to enemy e, with the session values
\* before (b) and after (a); removed is the id of the element a splice took
Event(type, e, b, a, removed) ==
    [type |-> type, id |-> e.id, variant |-> e.variant, eSize |-> e.size,
     ex |-> e.x, removed |-> removed,
     sizeBefore |-> b.player.size, sizeAfter |-> a.player.size,
     scoreBefore |-> b.scoreRef, scoreAfter |-> a.scoreRef,
     healthBefore |-> b.playerHealth, healthAfter |-> a.playerHealth,
     timerBefore |-> b.invulnTimer, timerAfter |-> a.invulnTimer,
     listBefore |-> [k \in 1..Len(b.enemies) |-> b.enemies[k].id],
     listAfter |-> [k \in 1..Len(a.enemies) |-> a.enemies[k].id]]

Logged(s, ev) == [s EXCEPT !.log = Append(@, ev)]

\* the refs a after a step on the refs b, with the step recorded
LogAfter(type, e, b, a, removed) == Logged(a, Event(type, e, b, a, removed))

----------------------------------------------------------------------------
\* p.draw, the decay of the screen shake

\* a decay that is never cut off to zero
ShakeDecayNoSnap(s) ==
    IF s.screenShake > 0
    THEN [s EXCEPT !.screenShake = (@ * 9 + 9) \div 10]
    ELSE s

ShakeDecay(s) ==
    IF s.screenShake > 0
    THEN LET d == (s.screenShake * 9) \div 10
         IN [s EXCEPT !.screenShake = IF 2 * d < UnitsPerPixel THEN 0 ELSE d]
    ELSE s

----------------------------------------------------------------------------
\* handleHandInput.  A sample of the hand tracker for one frame:
\*   ready   the landmarker is loaded and the video has data and dimensions
\*   fresh   video.currentTime differs from lastVideoTime
\*   result  "landmarks" | "empty" | "throws"
\*   x, y    landmark 9 of the first hand, in thousandths

NextVideoTime(last) == IF last = 0 THEN 1 ELSE 0

\* what handleHandInput got from the sample: "unready" (no landmarker or no
\* video data), "stale" (no new video frame), or the result of the detection
HandOutcome(hand) ==
    IF ~handLandmarkerRef \/ ~hand.ready THEN "unready"
    ELSE IF ~hand.fresh THEN "stale"
    ELSE hand.result

\* a handler that, without landmarks, carries the player on at its last
\* velocity
HandleHandInputCoasts(s, hand) ==
    IF ~handLandmarkerRef \/ ~hand.ready THEN s
    ELSE IF ~hand.fresh THEN s
    ELSE LET s1 == [s EXCEPT !.lastVideoTime = NextVideoTime(@)]
         IN IF hand.result # "landmarks"
            THEN [s1 EXCEPT !.player.x = @ + s.player.vx,
                            !.player.y = @ + s.player.vy]
            ELSE LET rawX == 1000 - hand.x
                     rawY == hand.y
                     W == width * UnitsPerPixel
                     H == height * UnitsPerPixel
                     targetX == Constrain(Map(rawX, 100, 900, 0, W), 0, W)
                     targetY == Constrain(Map(rawY, 100, 900, 0, H), 0, H)
                     prevX == s.player.x
                     prevY == s.player.y
                     nx == Lerp(prevX, targetX, 200)
                     ny == Lerp(prevY, targetY, 200)
                 IN [s1 EXCEPT !.player.x = nx, !.player.y = ny,
                               !.player.vx = nx - prevX,
                               !.player.vy = ny - prevY,
                               !.player.speed = Dist(0, 0, nx - prevX, ny - prevY)]

HandleHandInput(s, hand) ==
    IF ~handLandmarkerRef \/ ~hand.ready THEN s
    ELSE IF ~hand.fresh THEN s
    ELSE LET s1 == [s EXCEPT !.lastVideoTime = NextVideoTime(@)]
         IN IF hand.result # "landmarks" THEN s1
            ELSE LET rawX == 1000 - hand.x
                     rawY == hand.y
                     W == width * UnitsPerPixel
                     H == height * UnitsPerPixel
                     targetX == Constrain(Map(rawX, 100, 900, 0, W), 0, W)
                     targetY == Constrain(Map(rawY, 100, 900, 0, H), 0, H)
                     prevX == s.player.x
                     prevY == s.player.y
                     nx == Lerp(prevX, targetX, 200)
                     ny == Lerp(prevY, targetY, 200)
                 IN [s1 EXCEPT !.player.x = nx, !.player.y = ny,
                               !.player.vx = nx - prevX,
                               !.player.vy = ny - prevY,
                               !.player.speed = Dist(0, 0, nx - prevX, ny - prevY)]

----------------------------------------------------------------------------
\* updateGameLogic, the health system at the head of the frame

TimerStep(s, deltaTime) ==
    IF s.invulnTimer > 0 THEN [s EXCEPT !.invulnTimer = @ - deltaTime] ELSE s

RegenAlways(s) ==
    IF s.playerHealth < MaxHP
    THEN [s EXCEPT !.playerHealth = Min(@ + 1, MaxHP)]
    ELSE s

Regen(s) ==
    IF s.playerHealth < MaxHP /\ s.invulnTimer <= 0
    THEN [s EXCEPT !.playerHealth = Min(@ + 1, MaxHP)]
    ELSE s

\* updateGameLogic, the dynamic spawn rate
ActiveSpawnIntervalNoFloor(sc, alive) ==
    LET base == Max(600, 1500 - sc * 5)
    IN IF alive < 15 THEN Min(base, 800) ELSE base

ActiveSpawnInterval(sc, alive) ==
    LET base == Max(600, 1500 - sc * 5)
    IN IF alive < 8 THEN 300
       ELSE IF alive < 15 THEN Min(base, 800)
       ELSE base


----------------------------------------------------------------------------
\* spawnEnemy.  The draws of one call, each in thousandths (p.random() < 1):
\*   prey  the draw compared with 0.4     band  the draw of the predator bands
\*   size, speed, y  the draws of the three ranges
\*   side  the draw compared with 0.5

\* a selection with the shares of the two branches exchanged
SpawnVariantMostlyPredator(d) ==
    IF d.prey >= 600 THEN "prey"
    ELSE IF d.band < 350 THEN "hunter"
    ELSE IF d.band < 650 THEN "dasher"
    ELSE IF d.band < 850 THEN "viper"
    ELSE "titan"

SpawnVariant(d) ==
    IF d.prey > 400 THEN "prey"
    ELSE IF d.band < 350 THEN "hunter"
    ELSE IF d.band < 650 THEN "dasher"
    ELSE IF d.band < 850 THEN "viper"
    ELSE "titan"

SpawnSize(variant, pSize, d) ==
    CASE variant = "prey" ->
            Constrain(RandomSize((pSize * 3) \div 10, (pSize * 8) \div 10, d.size),
                      Sf(10), Sf(300))
      [] variant = "hunter" ->
            RandomSize((pSize * 11) \div 10, pSize * 2, d.size)
      [] variant = "dasher" ->
            RandomSize(pSize, (pSize * 14) \div 10, d.size)
      [] variant = "viper" ->
            RandomSize((pSize * 11) \div 10, (pSize * 16) \div 10, d.size)
      [] OTHER ->
            RandomSize((pSize * 18) \div 10, pSize * 3, d.size)

SpawnSpeed(variant, d) ==
    CASE variant = "prey" -> SfT(RandomRange(30, 60, d.speed))
      [] variant = "hunter" -> SfT(RandomRange(20, 40, d.speed))
      [] variant = "dasher" -> SfT(RandomRange(50, 70, d.speed))
      [] variant = "viper" -> SfT(RandomRange(30, 50, d.speed))
      [] OTHER -> SfT(RandomRange(5, 15, d.speed))

SpawnX(size, fromLeft) ==
    IF fromLeft THEN -(size * 2) ELSE width * UnitsPerPixel + size * 2

SpawnEnemy(s, d) ==
    LET variant == SpawnVariant(d)
        size == SpawnSize(variant, s.player.size, d)
        speed == SpawnSpeed(variant, d)
        y == RandomRange(Sf(50), height * UnitsPerPixel - Sf(50), d.y)
        fromLeft == d.side > 500
        e == [id |-> s.nextId, x |-> SpawnX(size, fromLeft), y |-> y,
              size |-> size, vx |-> IF fromLeft THEN speed ELSE -speed,
              vy |-> 0, speed |-> speed, variant |-> variant]
    IN [s EXCEPT !.enemies = Append(@, e), !.nextId = @ + 1]

\* a spawn decision that the properties must tell apart
SpawnDueAtInterval(s, currentTime) ==
    currentTime - s.lastSpawnTime >=
        ActiveSpawnInterval(s.scoreRef, Len(s.enemies))

\* updateGameLogic, the spawn decision
SpawnDue(s, currentTime) ==
    currentTime - s.lastSpawnTime >
        ActiveSpawnInterval(s.scoreRef, Len(s.enemies))

SpawnStep(s, currentTime, d) ==
    LET s1 == [s EXCEPT !.activeSpawnInterval =
                            ActiveSpawnInterval(s.scoreRef, Len(s.enemies))]
    IN IF SpawnDue(s, currentTime)
       THEN [SpawnEnemy(s1, d) EXCEPT !.lastSpawnTime = currentTime,
                                      !.spawnDraw = d]
       ELSE s1

----------------------------------------------------------------------------
\* spawnParticles and spawnShockwave; a particle is kept as (y, vy, alpha),
\* the fields drawParticles decides on, and the particles of one burst share
\* the draw of vy

SpawnParticles(s, y, count, t) ==
    [s EXCEPT !.particles =
        @ \o Repeat([y |-> y, vy |-> SfT(RandomRange(-30, 30, t)), alpha |-> 255],
                    count)]

SpawnShockwave(s, t) ==
    [s EXCEPT !.shockwaves =
        Append(@, [maxRadius |-> SfT(RandomRange(800, 1200, t)),
                   currentRadius |-> Sf(10), alpha |-> 200,
                   lineWidth |-> Sf(8)])]

----------------------------------------------------------------------------
\* updateGameLogic, one pass of the loop over the enemies

DetectionRange(variant) ==
    CASE variant = "dasher" -> Sf(600)
      [] variant = "titan" -> Sf(500)
      [] variant = "viper" -> Sf(450)
      [] OTHER -> Sf(400)

\* chaseSpeedMultiplier, in tenths
ChaseSpeedMultiplier(variant) ==
    CASE variant = "dasher" -> 22
      [] variant = "titan" -> 8
      [] variant = "viper" -> 16
      [] OTHER -> 13

\* steerStrength, in thousandths
SteerStrength(variant) ==
    CASE variant = "dasher" -> 40
      [] variant = "titan" -> 50
      [] variant = "viper" -> 120
      [] OTHER -> 80

ActuallyPredatorOrEqual(e, pl) == e.size >= pl.size

ActuallyPredator(e, pl) == e.size > pl.size

Chases(e, pl, distToPlayer) ==
    ActuallyPredator(e, pl) /\ distToPlayer < DetectionRange(e.variant)

\* the titan's pull on the player and its screen shake
TitanPull(s, e, distToPlayer) ==
    LET pullStrength == SfT(4)
        dy == e.y - s.player.y
        dx == e.x - s.player.x
    IN [s EXCEPT !.player.x = @ + (CosAtan2(dy, dx) * pullStrength) \div 1000,
                 !.player.y = @ + (SinAtan2(dy, dx) * pullStrength) \div 1000,
                 !.screenShake = IF distToPlayer < Sf(200)
                                 THEN @ + UnitsPerPixel \div 5 ELSE @]

Danger(e, distToPlayer) ==
    Constrain(Map(distToPlayer, DetectionRange(e.variant), Sf(100), 0, 1000),
              0, 1000)

\* the chase branch: the enemy's new velocity
ChaseVelocity(e, pl, wave) ==
    LET dy == pl.y - e.y
        dx == pl.x - e.x
        cosA == CosAtan2(dy, dx)
        sinA == SinAtan2(dy, dx)
        chaseSpeed == (e.speed * ChaseSpeedMultiplier(e.variant)) \div 10
        playerIsDashing == pl.speed > Sf(15)
        trackingStrength ==
            IF playerIsDashing THEN 15 ELSE SteerStrength(e.variant)
        oscillation == (wave * Sf(4)) \div 1000
        targetVx == (cosA * chaseSpeed) \div 1000
                    + (IF e.variant = "viper"
                       THEN ((-sinA) * oscillation) \div 1000 ELSE 0)
        targetVy == (sinA * chaseSpeed) \div 1000
                    + (IF e.variant = "viper"
                       THEN (cosA * oscillation) \div 1000 ELSE 0)
    IN [e EXCEPT !.vx = Lerp(@, targetVx, trackingStrength),
                 !.vy = Lerp(@, targetVy, trackingStrength)]

\* the wander branch
WanderVelocity(e, yNoise, speedNoise) ==
    LET driftY == Map(yNoise, 0, 1000, -SfT(15), SfT(15))
        speedMult == Map(speedNoise, 0, 1000, 800, 1200)
        intendedDir == IF e.vx > 0 THEN 1 ELSE -1
        wanderSpeed == IF e.variant = "titan" THEN e.speed \div 2 ELSE e.speed
    IN [e EXCEPT !.vx = Lerp(@, (intendedDir * wanderSpeed * speedMult) \div 1000, 50),
                 !.vy = Lerp(@, driftY, 50)]

\* a proximity test that the properties must tell apart
CollidesAtReach(pl, e, distToPlayer) ==
    10 * distToPlayer <= 6 * pl.size + 6 * e.size

Collides(pl, e, distToPlayer) ==
    10 * distToPlayer < 6 * pl.size + 6 * e.size

\* variants of the consume branch that the properties must tell apart
ConsumeKeepsEnemy(s, i, e, inp) ==
    LET s1 == [s EXCEPT !.player.size = @ + e.size \div 10,
                        !.scoreRef = @ + FloorDivSf(e.size),
                        !.playerHealth = Min(@ + 10 * HealthUnits, MaxHP)]
        s2 == [s1 EXCEPT !.pendingScore = s1.scoreRef]
        s3 == SpawnShockwave(SpawnParticles(s2, e.y, 15, inp.burst), inp.ring)
    IN Logged(s3, Event("consume", e, s, s3, e.id))

ConsumeUncapped(s, i, e, inp) ==
    LET s1 == [s EXCEPT !.player.size = @ + e.size \div 10,
                        !.scoreRef = @ + FloorDivSf(e.size),
                        !.playerHealth = @ + 10 * HealthUnits]
        s2 == [s1 EXCEPT !.pendingScore = s1.scoreRef,
                         !.enemies = RemoveAt(@, i)]
        s3 == SpawnShockwave(SpawnParticles(s2, e.y, 15, inp.burst), inp.ring)
    IN Logged(s3, Event("consume", e, s, s3, e.id))

ConsumeLosesScore(s, i, e, inp) ==
    LET s1 == [s EXCEPT !.player.size = @ + e.size \div 10,
                        !.scoreRef = @ - FloorDivSf(e.size),
                        !.playerHealth = Min(@ + 10 * HealthUnits, MaxHP)]
        s2 == [s1 EXCEPT !.pendingScore = s1.scoreRef,
                         !.enemies = RemoveAt(@, i)]
        s3 == SpawnShockwave(SpawnParticles(s2, e.y, 15, inp.burst), inp.ring)
    IN Logged(s3, Event("consume", e, s, s3, e.id))

\* the consume branch; i is the index of e in the list
Consume(s, i, e, inp) ==
    LET s1 == [s EXCEPT !.player.size = @ + e.size \div 10,
                        !.scoreRef = @ + FloorDivSf(e.size),
                        !.playerHealth = Min(@ + 10 * HealthUnits, MaxHP)]
        s2 == [s1 EXCEPT !.pendingScore = s1.scoreRef,
                         !.enemies = RemoveAt(@, i)]
        s3 == SpawnShockwave(SpawnParticles(s2, e.y, 15, inp.burst), inp.ring)
    IN Logged(s3, Event("consume", e, s, s3, e.id))

DamageOf(e) == (IF e.variant = "titan" THEN 60 ELSE 35) * HealthUnits

GameOverBlamesHunter(s, e) ==
    LET s1 == [s EXCEPT !.finalSize = FloorDivSf(s.player.size),
                        !.causeOfDeath = "hunter",
                        !.pendingGameState = "GAME_OVER"]
    IN Logged(s1, Event("gameover", e, s, s1, 0))

\* the game-over report
GameOver(s, e) ==
    LET s1 == [s EXCEPT !.finalSize = FloorDivSf(s.player.size),
                        !.causeOfDeath = e.variant,
                        !.pendingGameState = "GAME_OVER"]
    IN Logged(s1, Event("gameover", e, s, s1, 0))

DamageUnshielded(s, e, inp) ==
    LET baseImpact == (DivSf(e.size) * 8) \div 10 + DivSf(e.speed) * 2
        s1 == [s EXCEPT !.playerHealth = @ - DamageOf(e),
                        !.damageEffectVal = 100,
                        !.screenShake = Min(MulSf(baseImpact), Sf(50)),
                        !.invulnTimer = 1500]
        s2 == SpawnParticles(s1, s.player.y, 20, inp.burst)
        s3 == Logged(s2, Event("damage", e, s, s2, 0))
    IN IF s3.playerHealth <= 0
       THEN Logged([s3 EXCEPT !.finalSize = FloorDivSf(s.player.size),
                              !.causeOfDeath = e.variant,
                              !.pendingGameState = "GAME_OVER"],
                   Event("gameover", e, s3, s3, 0))
       ELSE s3

\* the damage branch: the game-over test that ends it
DamageEnd(s, e) == IF s.playerHealth <= 0 THEN GameOver(s, e) ELSE s

\* the damage branch: health, flash, shake, timer and the red burst
DamageHit(s, e, inp) ==
    LET baseImpact == (DivSf(e.size) * 8) \div 10 + DivSf(e.speed) * 2
        s1 == [s EXCEPT !.playerHealth = @ - DamageOf(e),
                        !.damageEffectVal = 100,
                        !.screenShake = Min(MulSf(baseImpact), Sf(50)),
                        !.invulnTimer = 1500]
    IN SpawnParticles(s1, s.player.y, 20, inp.burst)

\* the damage branch
Damage(s, e, inp) ==
    IF s.invulnTimer <= 0
    THEN DamageEnd(LogAfter("damage", e, s, DamageHit(s, e, inp), 0), e)
    ELSE Logged(s, Event("shielded", e, s, s, 0))

OutOfBounds(e) ==
    e.x < -Sf(300) \/ e.x > width * UnitsPerPixel + Sf(300)

\* the splice that follows the bounds test: it takes whatever stands at i
PruneOutOfBounds(s, i, e) ==
    IF OutOfBounds(e)
    THEN IF i <= Len(s.enemies)
         THEN LET s1 == [s EXCEPT !.enemies = RemoveAt(@, i)]
              IN Logged(s1, Event("pruned", e, s, s1, s.enemies[i].id))
         ELSE Logged(s, Event("pruned", e, s, s, 0))
    ELSE s

\* the loop body from the collision test on; e has moved
EnemyCollide(s, i, e, distToPlayer, inp) ==
    PruneOutOfBounds(
        IF Collides(s.player, e, distToPlayer)
        THEN IF s.player.size >= e.size
             THEN Consume(s, i, e, inp)
             ELSE Damage(s, e, inp)
        ELSE s,
        i, e)

\* e.x += e.vx; e.y += e.vy
Advance(e) == [e EXCEPT !.x = @ + e.vx, !.y = @ + e.vy]

EnemyMove(s, i, e, distToPlayer, inp) ==
    EnemyCollide([s EXCEPT !.enemies[i] = e], i, e, distToPlayer, inp)

\* the chase branch, its effects on the player and on the danger
Threaten(s, e, distToPlayer) ==
    [(IF e.variant = "titan" THEN TitanPull(s, e, distToPlayer) ELSE s)
        EXCEPT !.maxDanger = Max(@, Danger(e, distToPlayer))]

EnemyChase(s, i, e, distToPlayer, inp) ==
    EnemyMove(s, i, Advance(ChaseVelocity(e, s.player, inp.wave)),
              distToPlayer, inp)

EnemyWander(s, i, e, distToPlayer, inp) ==
    EnemyMove(s, i, Advance(WanderVelocity(e, inp.yNoise, inp.speedNoise)),
              distToPlayer, inp)

EnemySteer(s, i, e, distToPlayer, inp) ==
    IF Chases(e, s.player, distToPlayer)
    THEN EnemyChase(Threaten(s, e, distToPlayer), i, e, distToPlayer, inp)
    ELSE EnemyWander(s, i, e, distToPlayer, inp)

EnemyStep(s, i, inp) ==
    EnemySteer(s, i, s.enemies[i],
               Dist(s.player.x, s.player.y, s.enemies[i].x, s.enemies[i].y),
               inp)

RECURSIVE EnemyLoop(_, _, _)
EnemyLoop(s, i, inp) ==
    IF i < 1 THEN s ELSE EnemyLoop(EnemyStep(s, i, inp), i - 1, inp)

\* updateGameLogic, the ambient particle
AmbientParticle(s, inp) ==
    IF inp.ambient < 100
    THEN [s EXCEPT !.particles =
            Append(@, [y |-> height * UnitsPerPixel + 20 * UnitsPerPixel,
                       vy |-> SfT(RandomRange(10, 30, inp.burst)),
                       alpha |-> 100])]
    ELSE s

\* updateGameLogic, the loop over the enemies, from the last to the first
EnemyLoopAll(s, inp) == EnemyLoop(s, Len(s.enemies), inp)

\* updateGameLogic, the smoothing of the danger
DangerStep(s) == [s EXCEPT !.dangerIntensity = Lerp(@, s.maxDanger, 100)]

UpdateGameLogic(s, currentTime, inp) ==
    AmbientParticle(
        DangerStep(
            EnemyLoopAll(
                SpawnStep(Regen(TimerStep(s, inp.deltaTime)),
                          currentTime, inp.spawn),
                inp)),
        inp)

\* the loop runs from the last index down and a splice only shifts elements
\* it has already visited: every particle is moved once, the dead are dropped
ParticleDead(part) == part.alpha <= 0 \/ part.y < -10 * UnitsPerPixel

DrawParticlesFrom(ps) ==
    LET moved == [k \in 1..Len(ps) |->
                    [ps[k] EXCEPT !.y = @ - ps[k].vy, !.alpha = @ - 1]]
    IN SelectSeq(moved, LAMBDA part : ~ParticleDead(part))

DrawParticles(s) ==
    [s EXCEPT !.particles = DrawParticlesFrom(@)]

ShockwaveDead(sw) == sw.alpha <= 0 \/ 2 * sw.lineWidth < UnitsPerPixel

\* shockwaves that grow and thin out but do not fade
DrawShockwavesNoFade(sws) ==
    LET grown == [k \in 1..Len(sws) |->
                    [sws[k] EXCEPT
                       !.currentRadius =
                           @ + ((sws[k].maxRadius - @) * 15) \div 100 + Sf(1),
                       !.lineWidth = (@ * 9) \div 10]]
    IN SelectSeq(grown, LAMBDA sw : ~ShockwaveDead(sw))

DrawShockwavesFrom(sws) ==
    LET grown == [k \in 1..Len(sws) |->
                    [sws[k] EXCEPT
                       !.currentRadius =
                           @ + ((sws[k].maxRadius - @) * 15) \div 100 + Sf(1),
                       !.alpha = @ - 10,
                       !.lineWidth = (@ * 9) \div 10]]
    IN SelectSeq(grown, LAMBDA sw : ~ShockwaveDead(sw))

DrawShockwaves(s) ==
    [s EXCEPT !.shockwaves = DrawShockwavesFrom(@)]

\* drawPlayer, the decay of the damage flash
\* a red flash over the last 200 ms of the countdown
DrawDangerOverlayAtExpiry(s) == s.invulnTimer > 0 /\ s.invulnTimer <= 200

\* drawDangerOverlay, the full-screen red flash: whether the frame draws it
DrawDangerOverlay(s) == s.invulnTimer > 1300

DrawPlayer(s) ==
    IF s.damageEffectVal > 1 THEN [s EXCEPT !.damageEffectVal = @ - 5] ELSE s

\* p.draw
Draw(s, currentTime, inp) ==
    LET s1 == HandleHandInput(ShakeDecay(s), inp.hand)
        s2 == IF gameState = "PLAYING"
              THEN UpdateGameLogic(s1, currentTime, inp) ELSE s1
    IN DrawPlayer(DrawShockwaves(DrawParticles(s2)))


----------------------------------------------------------------------------
\* resetGame and updateScaleFactor

UpdateScaleFactor(w, h) == Min(w, h)

Decorations(count, w, h) == [count |-> count, w |-> w, h |-> h]

ResetGameKeepsTimer(s, w, h, sfv, now) ==
    [s EXCEPT !.player = [x |-> (w * UnitsPerPixel) \div 2,
                          y |-> (h * UnitsPerPixel) \div 2,
                          size |-> SfOf(20, sfv),
                          vx |-> 0, vy |-> 0, speed |-> 0],
              !.scoreRef = 0,
              !.pendingScore = 0,
              !.playerHealth = MaxHP,
              !.screenShake = 0,
              !.damageEffectVal = 0,
              !.enemies = <<>>,
              !.lastSpawnTime = now,
              !.particles = <<>>,
              !.shockwaves = <<>>,
              !.log = Append(@, [type |-> "reset"])]

\* resetGame(p) on the refs s, for a canvas of w x h and the scale factor sfv
ResetGame(s, w, h, sfv, now) ==
    [s EXCEPT !.player = [x |-> (w * UnitsPerPixel) \div 2,
                          y |-> (h * UnitsPerPixel) \div 2,
                          size |-> SfOf(20, sfv),
                          vx |-> 0, vy |-> 0, speed |-> 0],
              !.scoreRef = 0,
              !.pendingScore = 0,
              !.playerHealth = MaxHP,
              !.invulnTimer = 0,
              !.screenShake = 0,
              !.damageEffectVal = 0,
              !.enemies = <<>>,
              !.lastSpawnTime = now,
              !.particles = <<>>,
              !.shockwaves = <<>>,
              !.log = Append(@, [type |-> "reset"])]

\* the refs and React values a frame or a reset leaves, written back
Store(s) ==
    /\ player' = s.player
    /\ enemies' = s.enemies
    /\ particles' = s.particles
    /\ shockwaves' = s.shockwaves
    /\ scoreRef' = s.scoreRef
    /\ lastSpawnTime' = s.lastSpawnTime
    /\ dangerIntensity' = s.dangerIntensity
    /\ playerHealth' = s.playerHealth
    /\ invulnTimer' = s.invulnTimer
    /\ screenShake' = s.screenShake
    /\ damageEffectVal' = s.damageEffectVal
    /\ lastVideoTime' = s.lastVideoTime
    /\ pendingScore' = s.pendingScore
    /\ pendingGameState' = s.pendingGameState
    /\ finalSize' = s.finalSize
    /\ causeOfDeath' = s.causeOfDeath
    /\ activeSpawnInterval' = s.activeSpawnInterval
    /\ nextId' = s.nextId
    /\ log' = s.log
    /\ spawnDraw' = s.spawnDraw

\* the refs and React values s, as the state holds them
Stored(s) ==
    /\ player = s.player
    /\ enemies = s.enemies
    /\ particles = s.particles
    /\ shockwaves = s.shockwaves
    /\ scoreRef = s.scoreRef
    /\ lastSpawnTime = s.lastSpawnTime
    /\ dangerIntensity = s.dangerIntensity
    /\ playerHealth = s.playerHealth
    /\ invulnTimer = s.invulnTimer
    /\ screenShake = s.screenShake
    /\ damageEffectVal = s.damageEffectVal
    /\ lastVideoTime = s.lastVideoTime
    /\ pendingScore = s.pendingScore
    /\ pendingGameState = s.pendingGameState
    /\ finalSize = s.finalSize
    /\ causeOfDeath = s.causeOfDeath
    /\ activeSpawnInterval = s.activeSpawnInterval
    /\ nextId = s.nextId
    /\ log = s.log
    /\ spawnDraw = s.spawnDraw

----------------------------------------------------------------------------
\* App: the leaderboard write of the game-over effect

RECURSIVE InsertDesc(_, _)
InsertDesc(seq, v) ==
    IF seq = <<>> THEN <<v>>
    ELSE IF v > Head(seq) THEN <<v>> \o seq
    ELSE <<Head(seq)>> \o InsertDesc(Tail(seq), v)

\* newScores.sort((a, b) => b.score - a.score), a stable sort
RECURSIVE SortDesc(_)
SortDesc(seq) ==
    IF seq = <<>> THEN <<>>
    ELSE InsertDesc(SortDesc(SubSeq(seq, 1, Len(seq) - 1)), seq[Len(seq)])

\* a write that keeps the first five of [...prev, entry] as they stand
SaveHighScoreUnsorted(prev, sc) ==
    LET newScores == Append(prev, sc)
    IN SubSeq(newScores, 1, Min(5, Len(newScores)))

\* [...prev, entry] sorted by descending score, first five
SaveHighScore(prev, sc) ==
    LET sorted == SortDesc(Append(prev, sc))
    IN SubSeq(sorted, 1, Min(5, Len(sorted)))

----------------------------------------------------------------------------
\* Inputs of a frame

FrameLimit ==
    IF gameState = "PLAYING" /\ sessions = 1 THEN MaxFrames ELSE MaxIdleFrames

Viewports == {400}

\* draws of spawnEnemy: one of every variant (a prey, hunter, dasher and
\* viper of the middle of its size range, the smallest titan), fastest
\* speed, mid height, from the left
SpawnDraws ==
    { [prey |-> pb[1], band |-> pb[2], size |-> pb[3], speed |-> 999,
       y |-> 500, side |-> 900] :
        pb \in {<<900, 0, 500>>, <<100, 100, 500>>, <<100, 500, 500>>,
                <<100, 700, 500>>, <<100, 900, 0>>} }

\* the hand held at the left edge of the camera image
HandSamples ==
    { [ready |-> TRUE, fresh |-> TRUE, result |-> "landmarks",
       x |-> 950, y |-> 500] }

FrameTimes == {10}
LongFrameTimes == {1500}

\* p.deltaTime: frames are short; a long frame (the tab was hidden) comes
\* while nothing is alive and, possibly, in the two frames after a hit
DeltaTimes ==
    IF gameState = "PLAYING" /\ enemies = <<>> THEN LongFrameTimes
    ELSE IF gameState = "PLAYING" /\ invulnTimer >= 1490
         THEN FrameTimes \cup LongFrameTimes
    ELSE FrameTimes

SpawnChoices(dt) ==
    IF gameState = "PLAYING" /\ SpawnDue(Refs, millis + dt)
    THEN SpawnDraws ELSE {NoDraw}

AmbientChoices ==
    IF gameState = "PLAYING" /\ frameCount + 2 >= FrameLimit
    THEN {50, 500} ELSE {500}

InputsAt(dt) ==
    { [deltaTime |-> dt, hand |-> hd, spawn |-> d, wave |-> 0,
       yNoise |-> 500, speedNoise |-> 500, burst |-> 500, ring |-> 500,
       ambient |-> am] :
        hd \in HandSamples, d \in SpawnChoices(dt), am \in AmbientChoices }

Inputs == UNION { InputsAt(dt) : dt \in DeltaTimes }

----------------------------------------------------------------------------
\* The effects of FishGame that depend on gameState: the audio and the
\* sketch.  a is the audio as a record: ref, what audioCtxRef points to,
\* and open, the number of AudioContexts open

\* the cleanup the audio effect returned when it ran for the state old
AudioCleanup(a, old) ==
    IF a.ref # "null" /\ old # "PLAYING"
    THEN [ref |-> "closed", open |-> IF a.ref = "open" THEN a.open - 1 ELSE a.open]
    ELSE a

\* an audio effect that leaves the context open when the session ends
AudioEffectKeepsOpen(a, new) ==
    IF new = "PLAYING"
    THEN [ref |-> "open", open |-> a.open + 1]
    ELSE a

\* the audio effect for the state new
AudioEffect(a, new) ==
    IF new = "PLAYING"
    THEN [ref |-> "open", open |-> a.open + 1]
    ELSE IF a.ref # "null"
         THEN [ref |-> "null", open |-> IF a.ref = "open" THEN a.open - 1 ELSE a.open]
         ELSE a

\* the sketch effect: the cleanup removes the instance of the last run,
\* then new p5(sketch) makes the next
SketchEffect(n) == (n - 1) + 1

\* the resources after the mount and the effects of the state rendered
Mounted ==
    /\ audioCtxRef = IF gameState = "PLAYING" THEN "open" ELSE "null"
    /\ openContexts = IF gameState = "PLAYING" THEN 1 ELSE 0
    /\ p5Instances = 1

----------------------------------------------------------------------------
\* The state after the component has mounted: the sketch has run setup

\* what setup leaves apart from the score and the enemies
SketchSetUp ==
    /\ finalSize = 0 /\ causeOfDeath = "" /\ highScores = <<>>
    /\ width \in Viewports /\ height = width
    /\ millis = 0 /\ frameCount = 0
    /\ scaleFactor = UpdateScaleFactor(width, height)
    /\ plankton = Decorations(60, width, height)
    /\ bubbles = Decorations(15, width, height)
    /\ dangerIntensity = 0
    /\ lastVideoTime = -1
    /\ activeSpawnInterval = 0
    /\ gameOverCalls = 0
    /\ handResult = "none"
    /\ spawnDraw = NoDraw
    /\ LET blank == [player |-> [x |-> 0, y |-> 0, size |-> 20, vx |-> 0,
                                 vy |-> 0, speed |-> 0],
                     enemies |-> <<>>, particles |-> <<>>, shockwaves |-> <<>>,
                     scoreRef |-> 0, lastSpawnTime |-> 0, playerHealth |-> MaxHP,
                     invulnTimer |-> 0, screenShake |-> 0, damageEffectVal |-> 0,
                     pendingScore |-> 0, log |-> <<>>]
           s == ResetGame(blank, width, height, scaleFactor, 0)
       IN /\ player = s.player
          /\ particles = s.particles /\ shockwaves = s.shockwaves
          /\ lastSpawnTime = s.lastSpawnTime
          /\ playerHealth = s.playerHealth /\ invulnTimer = s.invulnTimer
          /\ screenShake = s.screenShake /\ damageEffectVal = s.damageEffectVal
          /\ log = s.log

NewSession ==
    /\ score = 0 /\ pendingScore = 0 /\ scoreRef = 0
    /\ enemies = <<>>
    /\ nextId = 1

Init ==
    /\ gameState = "LOADING" /\ pendingGameState = "LOADING"
    /\ handLandmarkerRef = FALSE
    /\ Mounted
    /\ sessions = 0
    /\ SketchSetUp
    /\ NewSession

\* React renders a queued update before the next animation frame: no frame
\* is drawn, and no button pressed, between setGameState or setScore and
\* the render
NothingPending == pendingGameState = gameState /\ pendingScore = score

\* initAI resolves: the landmarker is stored and LOADING gives way to MENU
InitAI ==
    /\ ~handLandmarkerRef
    /\ NothingPending
    /\ handLandmarkerRef' = TRUE
    /\ pendingGameState' = IF gameState = "LOADING" THEN "MENU" ELSE pendingGameState
    /\ log' = <<>>
    /\ UNCHANGED <<gameState, score, pendingScore, finalSize, causeOfDeath,
                   highScores, p5Vars, scaleFactor, player, enemies, particles,
                   shockwaves, plankton, bubbles, scoreRef, lastSpawnTime,
                   dangerIntensity, playerHealth, invulnTimer, screenShake,
                   damageEffectVal, lastVideoTime, activeSpawnInterval,
                   sessions, nextId, gameOverCalls, handResult, spawnDraw>>
    /\ UNCHANGED mountVars

\* the START HUNTING button of the menu
StartHunting ==
    /\ gameState = "MENU"
    /\ NothingPending
    /\ sessions < MaxSessions
    /\ pendingGameState' = "PLAYING"
    /\ sessions' = sessions + 1
    /\ log' = <<>>
    /\ UNCHANGED <<gameState, score, pendingScore, finalSize, causeOfDeath,
                   highScores, p5Vars, refVars, activeSpawnInterval, nextId,
                   gameOverCalls, handResult, spawnDraw>>
    /\ UNCHANGED mountVars

\* the REINCARNATE button of the game-over screen
Reincarnate ==
    /\ gameState = "GAME_OVER"
    /\ NothingPending
    /\ sessions < MaxSessions
    /\ pendingScore' = 0
    /\ pendingGameState' = "PLAYING"
    /\ sessions' = sessions + 1
    /\ log' = <<>>
    /\ UNCHANGED <<gameState, score, finalSize, causeOfDeath,
                   highScores, p5Vars, refVars, activeSpawnInterval, nextId,
                   gameOverCalls, handResult, spawnDraw>>
    /\ UNCHANGED mountVars

\* React renders the queued updates and runs the effects whose dependencies
\* changed: App's [gameState, score] effect, and, when gameState changed,
\* FishGame's sketch effect (p5Obj.remove(), new p5(sketch), setup)
Render ==
    /\ ~NothingPending
    /\ gameState' = pendingGameState
    /\ score' = pendingScore
    /\ highScores' = IF pendingGameState = "GAME_OVER"
                     THEN SaveHighScore(highScores, pendingScore)
                     ELSE highScores
    /\ IF pendingGameState # gameState
       THEN /\ scaleFactor' = UpdateScaleFactor(width, height)
            /\ millis' = 0
            /\ frameCount' = 0
            /\ plankton' = Decorations(60, width, height)
            /\ bubbles' = Decorations(15, width, height)
            /\ LET s0 == [Refs EXCEPT !.causeOfDeath =
                             IF pendingGameState = "PLAYING" THEN "" ELSE @]
               IN Store(ResetGame(s0, width, height, scaleFactor', 0))
       ELSE /\ Store([Refs EXCEPT !.causeOfDeath =
                         IF pendingGameState = "PLAYING" THEN "" ELSE @])
            /\ UNCHANGED <<scaleFactor, millis, frameCount, plankton, bubbles>>
    /\ gameOverCalls' = IF pendingGameState = "PLAYING" /\ gameState # "PLAYING"
                        THEN 0 ELSE gameOverCalls
    /\ handResult' = IF pendingGameState # gameState THEN "none" ELSE handResult
    /\ IF pendingGameState # gameState
       THEN LET a == AudioEffect(AudioCleanup([ref |-> audioCtxRef,
                                              open |-> openContexts],
                                             gameState),
                                pendingGameState)
            IN /\ audioCtxRef' = a.ref
               /\ openContexts' = a.open
               /\ p5Instances' = SketchEffect(p5Instances)
       ELSE UNCHANGED mountVars
    /\ UNCHANGED <<width, height, handLandmarkerRef, sessions>>

GameOverEvents(lg) == Len(SelectSeq(lg, LAMBDA ev : ev.type = "gameover"))

\* one frame of the sketch, p.draw, for a frame input out of inputs; the
\* sketch is followed for limit frames
TickFrame(inputs, limit) ==
    /\ NothingPending
    /\ frameCount < limit
    /\ \E inp \in inputs :
          LET currentTime == millis + inp.deltaTime
              s == Draw(Refs, currentTime, inp)
          IN /\ (gameState = "PLAYING" /\ SpawnDue(Refs, currentTime))
                    => Len(enemies) < MaxEnemies
             /\ millis' = currentTime
             /\ frameCount' = frameCount + 1
             /\ Store(s)
             /\ gameOverCalls' = gameOverCalls + GameOverEvents(s.log)
             /\ handResult' = HandOutcome(inp.hand)
    /\ UNCHANGED <<gameState, score, highScores, width, height, scaleFactor,
                   plankton, bubbles, handLandmarkerRef, sessions>>
    /\ UNCHANGED mountVars

TickWith(inputs) == TickFrame(inputs, FrameLimit)

Tick == TickWith(Inputs)

\* p.windowResized, the window now w x h
WindowResized(w, h) ==
    /\ <<w, h>> # <<width, height>>
    /\ width' = w
    /\ height' = h
    /\ scaleFactor' = UpdateScaleFactor(w, h)
    /\ IF plankton.count = 0
       THEN /\ Store(ResetGame(Refs, w, h, scaleFactor', millis))
            /\ plankton' = Decorations(60, w, h)
            /\ bubbles' = Decorations(15, w, h)
       ELSE /\ Store(Refs)
            /\ UNCHANGED <<plankton, bubbles>>
    /\ UNCHANGED <<gameState, score, highScores, millis, frameCount,
                   handLandmarkerRef, sessions, gameOverCalls, handResult>>
    /\ UNCHANGED mountVars

Next == InitAI \/ StartHunting \/ Reincarnate \/ Render \/ Tick

Spec == Init /\ [][Next]_vars


----------------------------------------------------------------------------
\* The spawn interval on its own: a session at any score with any number of
\* enemies alive, and the interval updateGameLogic computes for the frame

MaxScore == 200
MaxAlive == 16

Shoal(n) ==
    [k \in 1..n |-> [id |-> k, x |-> 400 * k, y |-> 2000, size |-> 280,
                     vx |-> -60, vy |-> 0, speed |-> 60, variant |-> "prey"]]

InitInterval ==
    /\ gameState = "PLAYING" /\ pendingGameState = "PLAYING"
    /\ handLandmarkerRef = TRUE
    /\ Mounted
    /\ sessions = 1
    /\ SketchSetUp
    /\ scoreRef \in 0..MaxScore
    /\ score = scoreRef /\ pendingScore = scoreRef
    /\ enemies \in { Shoal(n) : n \in 0..MaxAlive }
    /\ nextId = Len(enemies) + 1

ComputeInterval ==
    /\ activeSpawnInterval = 0
    /\ activeSpawnInterval' = ActiveSpawnInterval(scoreRef, Len(enemies))
    /\ UNCHANGED <<appVars, p5Vars, refVars, log, sessions, nextId, gameOverCalls,
                   handResult, spawnDraw>>
    /\ UNCHANGED mountVars

NextInterval == ComputeInterval

SpecInterval == InitInterval /\ [][NextInterval]_vars

----------------------------------------------------------------------------
\* A session during which the window is resized

ResizedViewports == {<<16, 400>>}

\* draws of spawnEnemy: the largest, slowest prey at mid height, the
\* smallest, fastest prey near the top, a hunter; all from the left
ResizeDraws ==
    { [prey |-> 900, band |-> 0, size |-> 999, speed |-> 0,
       y |-> 500, side |-> 900],
      [prey |-> 900, band |-> 0, size |-> 0, speed |-> 999,
       y |-> 100, side |-> 900],
      [prey |-> 100, band |-> 100, size |-> 500, speed |-> 999,
       y |-> 500, side |-> 900] }

\* frames are short; once the player is at the edge one long frame may come,
\* and a second one right after it
ResizeDeltaTimes ==
    IF \/ frameCount >= 12 /\ nextId = 1
       \/ nextId = 2 /\ lastSpawnTime = millis
    THEN FrameTimes \cup LongFrameTimes
    ELSE FrameTimes

ResizeInputsAt(dt) ==
    { [deltaTime |-> dt, hand |-> hd, spawn |-> d, wave |-> 0,
       yNoise |-> 500, speedNoise |-> 500, burst |-> 500, ring |-> 500,
       ambient |-> 500] :
        hd \in HandSamples,
        d \in IF SpawnDue(Refs, millis + dt) THEN ResizeDraws ELSE {NoDraw} }

ResizeInputs == UNION { ResizeInputsAt(dt) : dt \in ResizeDeltaTimes }

InitResize ==
    /\ gameState = "PLAYING" /\ pendingGameState = "PLAYING"
    /\ handLandmarkerRef = TRUE
    /\ Mounted
    /\ sessions = 1
    /\ SketchSetUp
    /\ NewSession

ResizeTick == TickWith(ResizeInputs)

Resize == \E v \in ResizedViewports : WindowResized(v[1], v[2])

NextResize == ResizeTick \/ Resize

SpecResize == InitResize /\ [][NextResize]_vars

----------------------------------------------------------------------------
\* The component from its mount on, in a window that is resized: to a
\* smaller window, and to a window collapsed to no height

MaxWindowFrames == 3

WindowViewports == {<<400, 400>>, <<300, 200>>, <<400, 0>>}

\* draws of spawnEnemy: a prey and a hunter of the middle of their ranges
WindowDraws ==
    { [prey |-> pb[1], band |-> pb[2], size |-> 500, speed |-> 999,
       y |-> 500, side |-> 900] : pb \in {<<900, 0>>, <<100, 100>>} }

WindowInputsAt(dt) ==
    { [deltaTime |-> dt, hand |-> hd, spawn |-> d, wave |-> 0,
       yNoise |-> 500, speedNoise |-> 500, burst |-> 500, ring |-> 500,
       ambient |-> 500] :
        hd \in HandSamples,
        d \in IF gameState = "PLAYING" /\ SpawnDue(Refs, millis + dt)
              THEN WindowDraws ELSE {NoDraw} }

WindowInputs == UNION { WindowInputsAt(dt) : dt \in DeltaTimes }

WindowTick == frameCount < MaxWindowFrames /\ TickWith(WindowInputs)

WindowResize == \E v \in WindowViewports : WindowResized(v[1], v[2])

NextWindow == InitAI \/ StartHunting \/ Render \/ WindowTick \/ WindowResize

SpecWindow == Init /\ [][NextWindow]_vars

----------------------------------------------------------------------------
\* A session under way in a w x w window, nothing in flight; the player, the
\* enemies, the score and the effects are left to the scenario

InProgress(w) ==
    /\ handLandmarkerRef = TRUE
    /\ audioCtxRef = "open" /\ openContexts = 1 /\ p5Instances = 1
    /\ sessions = 1
    /\ finalSize = 0 /\ causeOfDeath = ""
    /\ width = w /\ height = w
    /\ millis = 0 /\ frameCount = 0
    /\ scaleFactor = UpdateScaleFactor(w, w)
    /\ plankton = Decorations(60, w, w)
    /\ bubbles = Decorations(15, w, w)
    /\ particles = <<>>
    /\ lastSpawnTime = 0
    /\ dangerIntensity = 0
    /\ playerHealth = MaxHP /\ invulnTimer = 0 /\ damageEffectVal = 0
    /\ lastVideoTime = 0
    /\ activeSpawnInterval = 0
    /\ gameOverCalls = 0
    /\ handResult = "none"
    /\ spawnDraw = NoDraw
    /\ log = <<>>

----------------------------------------------------------------------------
\* The classification of one enemy: a session with a single enemy whose
\* size is just below, equal to or just above the player's, near the player
\* or far from it; the hand is out of the picture, so that only a titan's
\* pull moves the player

MaxClassifyFrames == 3

\* an enemy as spawnEnemy made it when the player's size was 20 * sf: its
\* size (the least of its variant's range, a small prey) and its speed
ClassifiedEnemies ==
    { [variant |-> "prey", size |-> 200, speed |-> 100],
      [variant |-> "hunter", size |-> 440, speed |-> 60],
      [variant |-> "dasher", size |-> 420, speed |-> 120],
      [variant |-> "viper", size |-> 440, speed |-> 80],
      [variant |-> "titan", size |-> 720, speed |-> 20] }

\* the player has since grown by prey of size 200: 20 on the size, 10 points
\* on the score each
ClassifiedPlayerSizes(c) ==
    IF c.variant = "prey" THEN {400, 420, 440}
    ELSE {c.size - 20, c.size, c.size + 20}

\* distance of the enemy, to the left of the player: within 100 * sf, at
\* the viper's detection range exactly, beyond every range
ClassifiedDistances == {2000, 9000, 13000}

InitClassify ==
    /\ InProgress(400)
    /\ gameState = "PLAYING" /\ pendingGameState = "PLAYING"
    /\ highScores = <<>>
    /\ shockwaves = <<>>
    /\ screenShake = 0
    /\ nextId = 2
    /\ \E c \in ClassifiedEnemies, d \in ClassifiedDistances :
          \E ps \in ClassifiedPlayerSizes(c) :
             /\ player = [x |-> 8000, y |-> 8000, size |-> ps, vx |-> 0,
                          vy |-> 0, speed |-> 0]
             /\ enemies = << [id |-> 1, x |-> 8000 - d, y |-> 8000,
                              size |-> c.size, vx |-> c.speed, vy |-> 0,
                              speed |-> c.speed, variant |-> c.variant] >>
             /\ scoreRef = (ps - 400) \div 2
             /\ score = scoreRef /\ pendingScore = scoreRef

\* no new video frame: handleHandInput leaves the player alone
ClassifyInputs ==
    { [deltaTime |-> 10,
       hand |-> [ready |-> TRUE, fresh |-> FALSE, result |-> "empty",
                 x |-> 500, y |-> 500],
       spawn |-> NoDraw, wave |-> 0, yNoise |-> 500, speedNoise |-> 500,
       burst |-> 500, ring |-> 500, ambient |-> 500] }

ClassifyTick == frameCount < MaxClassifyFrames /\ TickWith(ClassifyInputs)

NextClassify == ClassifyTick

SpecClassify == InitClassify /\ [][NextClassify]_vars

----------------------------------------------------------------------------
\* a prey of the middle of its range, from the left, in the upper part of
\* the window
ShakePrey ==
    [prey |-> 900, band |-> 0, size |-> 500, speed |-> 999, y |-> 200,
     side |-> 900]

----------------------------------------------------------------------------
\* The life of a shockwave: a session in an 800 x 800 window (scale 1) at
\* the end of the frame in which the player has eaten its first prey; the
\* shockwave of that meal has whatever maxRadius p.random(80, 120) drew

MaxShockwaveFrames == 40

\* draws of p.random(80, 120): 80, 81, ... 119.5; the draw 500 gives 100
RingDraws == { 25 * k : k \in 0..39 } \cup { 25 * k + 12 : k \in 0..39 }

\* the refs before that meal: a prey of size 11 under the player
BeforeMeal ==
    [player |-> [x |-> 16000, y |-> 16000, size |-> 800, vx |-> 0, vy |-> 0,
                 speed |-> 0],
     enemies |-> << [id |-> 1, x |-> 16000, y |-> 16000, size |-> 440,
                     vx |-> 180, vy |-> 0, speed |-> 180,
                     variant |-> "prey"] >>,
     particles |-> <<>>, shockwaves |-> <<>>, scoreRef |-> 0,
     lastSpawnTime |-> 0, dangerIntensity |-> 0, playerHealth |-> MaxHP,
     invulnTimer |-> 0, screenShake |-> 0, damageEffectVal |-> 0,
     lastVideoTime |-> 0, pendingScore |-> 0, pendingGameState |-> "PLAYING",
     finalSize |-> 0, causeOfDeath |-> "", activeSpawnInterval |-> 300,
     nextId |-> 2, maxDanger |-> 0, log |-> <<>>, spawnDraw |-> NoDraw]

InitShockwave ==
    /\ gameState = "PLAYING"
    /\ score = 0
    /\ highScores = <<>>
    /\ handLandmarkerRef = TRUE
    /\ Mounted
    /\ sessions = 1
    /\ width = 800 /\ height = 800
    /\ millis = 100 /\ frameCount = 10
    /\ scaleFactor = UpdateScaleFactor(800, 800)
    /\ plankton = Decorations(60, 800, 800)
    /\ bubbles = Decorations(15, 800, 800)
    /\ gameOverCalls = 0
    /\ handResult = "stale"
    /\ \E t \in RingDraws :
          Stored(Consume(BeforeMeal, 1, BeforeMeal.enemies[1],
                         [burst |-> 500, ring |-> t]))

\* the hand is out of the picture; the prey that spawns swims past
ShockwaveInputs ==
    { [deltaTime |-> 10,
       hand |-> [ready |-> TRUE, fresh |-> FALSE, result |-> "empty",
                 x |-> 500, y |-> 500],
       spawn |-> IF SpawnDue(Refs, millis + 10) THEN ShakePrey ELSE NoDraw,
       wave |-> 0, yNoise |-> 500, speedNoise |-> 500,
       burst |-> 500, ring |-> 500, ambient |-> 500] }

ShockwaveFrame == TickFrame(ShockwaveInputs, MaxShockwaveFrames)

NextShockwave == Render \/ ShockwaveFrame

SpecShockwave == InitShockwave /\ [][NextShockwave]_vars

----------------------------------------------------------------------------
\* The leaderboard: a session at the end of the frame in which a hunter has
\* taken the last of the player's health; the leaderboard holds what earlier
\* game-over writes have left in it

MaxStored == 5

ScoreSamples == {0, 10, 20, 30}

\* lists of at most MaxStored scores in descending order
RECURSIVE StoredLists(_)
StoredLists(n) ==
    IF n = 0 THEN {<<>>}
    ELSE LET shorter == StoredLists(n - 1)
         IN shorter \cup
            { Append(l, v) : l \in { q \in shorter : Len(q) = n - 1 },
                             v \in ScoreSamples }

Descending(l) == \A i, j \in DOMAIN l : i < j => l[i] >= l[j]

\* the refs before the last hit: the player has eaten sc / 10 prey of size
\* 10 and is down to 20 health
BeforeHit(sc) ==
    [BeforeMeal EXCEPT
        !.player = [x |-> 8000, y |-> 8000, size |-> 400 + 2 * sc, vx |-> 0,
                    vy |-> 0, speed |-> 0],
        !.enemies = << [id |-> 1, x |-> 8000, y |-> 8000, size |-> 900,
                        vx |-> 60, vy |-> 0, speed |-> 60,
                        variant |-> "hunter"] >>,
        !.scoreRef = sc, !.pendingScore = sc,
        !.playerHealth = 20 * HealthUnits]

InitLeaderboard ==
    /\ gameState = "PLAYING"
    /\ handLandmarkerRef = TRUE
    /\ Mounted
    /\ sessions = 1
    /\ width = 400 /\ height = 400
    /\ millis = 100 /\ frameCount = 10
    /\ scaleFactor = UpdateScaleFactor(400, 400)
    /\ plankton = Decorations(60, 400, 400)
    /\ bubbles = Decorations(15, 400, 400)
    /\ gameOverCalls = 1
    /\ handResult = "landmarks"
    /\ highScores \in { l \in StoredLists(MaxStored) : Descending(l) }
    /\ score \in ScoreSamples
    /\ Stored(Damage(BeforeHit(score), BeforeHit(score).enemies[1],
                     [burst |-> 500, ring |-> 500]))

NextLeaderboard == Render \/ Reincarnate \/ Tick

SpecLeaderboard == InitLeaderboard /\ [][NextLeaderboard]_vars

----------------------------------------------------------------------------
\* A session in which the hand tracker fails: in any frame the video may
\* not be ready, may have no new frame, the detection may find no hand, or
\* it may throw

MaxHandFrames == 6

FailingHandSamples ==
    HandSamples \cup
    { [ready |-> rf[1], fresh |-> rf[2], result |-> rf[3], x |-> 950, y |-> 500] :
        rf \in {<<FALSE, TRUE, "landmarks">>, <<TRUE, FALSE, "landmarks">>,
                <<TRUE, TRUE, "empty">>, <<TRUE, TRUE, "throws">>} }

\* a prey of the middle of its range swims in from the left at mid height,
\* and every frame adds an ambient particle
HandInputsAt(dt) ==
    { [deltaTime |-> dt, hand |-> hd,
       spawn |-> IF SpawnDue(Refs, millis + dt)
                 THEN [ShakePrey EXCEPT !.y = 500] ELSE NoDraw,
       wave |-> 0, yNoise |-> 500, speedNoise |-> 500, burst |-> 500,
       ring |-> 500, ambient |-> 50] :
        hd \in FailingHandSamples }

HandInputs == UNION { HandInputsAt(dt) : dt \in DeltaTimes }

HandFrame == TickFrame(HandInputs, MaxHandFrames)

NextHand == HandFrame

SpecHand == InitResize /\ [][NextHand]_vars

----------------------------------------------------------------------------
\* A session in which the player, at the left edge, eats prey after prey
\* (each the largest spawnEnemy makes) and grows; once it is larger than
\* 50 * sf the spawner draws the largest titan

MaxFeastFrames == 120

FeastDraw ==
    IF player.size > Sf(51)
    THEN [prey |-> 100, band |-> 900, size |-> 999, speed |-> 999,
          y |-> 500, side |-> 900]
    ELSE [prey |-> 900, band |-> 0, size |-> 999, speed |-> 999,
          y |-> 500, side |-> 900]

FeastInputsAt(dt) ==
    { [deltaTime |-> dt, hand |-> hd,
       spawn |-> IF SpawnDue(Refs, millis + dt) THEN FeastDraw ELSE NoDraw,
       wave |-> 0, yNoise |-> 500, speedNoise |-> 500, burst |-> 500,
       ring |-> 500, ambient |-> 500] :
        hd \in HandSamples }

FeastInputs == UNION { FeastInputsAt(dt) : dt \in DeltaTimes }

FeastFrame == TickFrame(FeastInputs, MaxFeastFrames)

NextFeast == Render \/ FeastFrame

SpecFeast == InitResize /\ [][NextFeast]_vars

----------------------------------------------------------------------------
\* The screen shake left to itself: a session at the end of the frame in
\* which a hunter has hit the player, the shake at what the hit made it;
\* the player is shielded for the frames that follow, the hand is out of
\* the picture and the spawner draws prey, so nothing adds to the shake.
\* The sketch draws frame after frame.

MaxShakeFrames == 70

\* sizes of the hunter: the shake is min(0.8 * size + 2 * speed, 50 * sf)
HitterSizes == {440, 600, 900, 1500}

BeforeShake(size) ==
    [BeforeHit(0) EXCEPT !.playerHealth = MaxHP,
                         !.enemies[1].size = size,
                         !.enemies[1].x = 8000 - 300]

ShakeInputs ==
    { [deltaTime |-> 10,
       hand |-> [ready |-> TRUE, fresh |-> FALSE, result |-> "empty",
                 x |-> 500, y |-> 500],
       spawn |-> IF SpawnDue(Refs, millis + 10) THEN ShakePrey ELSE NoDraw,
       wave |-> 0, yNoise |-> 500, speedNoise |-> 500,
       burst |-> 500, ring |-> 500, ambient |-> 500] }

InitShake ==
    /\ gameState = "PLAYING"
    /\ score = 0
    /\ highScores = <<>>
    /\ handLandmarkerRef = TRUE
    /\ Mounted
    /\ sessions = 1
    /\ width = 400 /\ height = 400
    /\ millis = 100 /\ frameCount = 10
    /\ scaleFactor = UpdateScaleFactor(400, 400)
    /\ plankton = Decorations(60, 400, 400)
    /\ bubbles = Decorations(15, 400, 400)
    /\ gameOverCalls = 0
    /\ handResult = "stale"
    /\ \E size \in HitterSizes :
          Stored(Damage(BeforeShake(size), BeforeShake(size).enemies[1],
                        [burst |-> 500, ring |-> 500]))

ShakeFrame == TickFrame(ShakeInputs, MaxShakeFrames)

NextShake == ShakeFrame

\* the steps of ShakeFrame are the steps of NextShake that advance
\* frameCount, and ShakeFrame is enabled while the sketch is followed: p5
\* calls draw on every animation frame, so the frame counter keeps advancing
AnimationFrame ==
    /\ NothingPending
    /\ frameCount < MaxShakeFrames
    /\ frameCount' = frameCount + 1

SpecShake == InitShake /\ [][NextShake]_vars /\ WF_frameCount(AnimationFrame)

----------------------------------------------------------------------------
\* A prey and a hunter close in on a weakened player: a session with two
\* enemies next to the player, in either order of arrival; the hand is out
\* of the picture

MaxLastBiteFrames == 3

\* where the prey and the hunter are, to the right of the player
PreyOffsets == {-600, -300, 0, 300}
HunterOffsets == {-1500, -900, 600, 900}

\* health left by earlier hits, in points
HealthSamples == {20, 35, 50}

LastBitePrey(dx) ==
    [id |-> 1, x |-> 8000 + dx, y |-> 8000, size |-> 200, vx |-> 100,
     vy |-> 0, speed |-> 100, variant |-> "prey"]

LastBiteHunter(dx) ==
    [id |-> 2, x |-> 8000 + dx, y |-> 8000, size |-> 900, vx |-> 60,
     vy |-> 0, speed |-> 60, variant |-> "hunter"]

InitLastBite ==
    /\ gameState = "PLAYING"
    /\ score = 0
    /\ highScores = <<>>
    /\ handLandmarkerRef = TRUE
    /\ Mounted
    /\ sessions = 1
    /\ width = 400 /\ height = 400
    /\ millis = 100 /\ frameCount = 0
    /\ scaleFactor = UpdateScaleFactor(400, 400)
    /\ plankton = Decorations(60, 400, 400)
    /\ bubbles = Decorations(15, 400, 400)
    /\ gameOverCalls = 0
    /\ handResult = "stale"
    /\ \E dp \in PreyOffsets, dh \in HunterOffsets, hp \in HealthSamples,
          preyFirst \in BOOLEAN :
          Stored([BeforeHit(0) EXCEPT
                    !.enemies = IF preyFirst
                                THEN <<LastBitePrey(dp), LastBiteHunter(dh)>>
                                ELSE <<LastBiteHunter(dh), LastBitePrey(dp)>>,
                    !.nextId = 3,
                    !.lastSpawnTime = 100,
                    !.playerHealth = hp * HealthUnits])

LastBiteFrame == TickFrame(ClassifyInputs, MaxLastBiteFrames)

NextLastBite == Render \/ LastBiteFrame

SpecLastBite == InitLastBite /\ [][NextLastBite]_vars

----------------------------------------------------------------------------
\* The proximity test at its edge: a session with a single enemy whose size
\* is just below, equal to or just above the player's, at a distance under
\* the player, just within reach, just out of reach or well out of it; the
\* hand is out of the picture

MaxContactFrames == 2

\* the distance from which on the proximity test fails
Reach(ps, es) == (6 * ps + 6 * es) \div 10

ContactDistances(ps, es) ==
    {0, Reach(ps, es) - 1, Reach(ps, es), Reach(ps, es) + 200}

InitContact ==
    /\ InProgress(400)
    /\ gameState = "PLAYING" /\ pendingGameState = "PLAYING"
    /\ highScores = <<>>
    /\ shockwaves = <<>>
    /\ screenShake = 0
    /\ nextId = 2
    /\ \E c \in ClassifiedEnemies :
          \E ps \in ClassifiedPlayerSizes(c) :
             \E d \in ContactDistances(ps, c.size) :
                /\ player = [x |-> 8000, y |-> 8000, size |-> ps, vx |-> 0,
                             vy |-> 0, speed |-> 0]
                /\ enemies = << [id |-> 1, x |-> 8000 - d, y |-> 8000,
                                 size |-> c.size, vx |-> c.speed, vy |-> 0,
                                 speed |-> c.speed, variant |-> c.variant] >>
                /\ scoreRef = (ps - 400) \div 2
                /\ score = scoreRef /\ pendingScore = scoreRef

ContactFrame == TickFrame(ClassifyInputs, MaxContactFrames)

NextContact == ContactFrame

SpecContact == InitContact /\ [][NextContact]_vars

----------------------------------------------------------------------------
\* The spawner against the clock: the sketch as setup has left it, in the
\* menu or in a session, drawing frames of 100 or 150 ms, so that the time
\* since the last spawn passes through the interval of 300 ms exactly as
\* well as beyond it; the spawner draws prey that keep clear of the player

MaxSpawnerFrames == 8

SpawnerFrameTimes == {100, 150}

SpawnerInputs ==
    { [deltaTime |-> dt,
       hand |-> [ready |-> TRUE, fresh |-> FALSE, result |-> "empty",
                 x |-> 500, y |-> 500],
       spawn |-> ShakePrey, wave |-> 0, yNoise |-> 500, speedNoise |-> 500,
       burst |-> 500, ring |-> 500, ambient |-> 500] :
        dt \in SpawnerFrameTimes }

InitSpawner ==
    /\ gameState \in {"MENU", "PLAYING"}
    /\ pendingGameState = gameState
    /\ handLandmarkerRef = TRUE
    /\ Mounted
    /\ sessions = IF gameState = "PLAYING" THEN 1 ELSE 0
    /\ SketchSetUp
    /\ NewSession

SpawnerFrame == TickFrame(SpawnerInputs, MaxSpawnerFrames)

NextSpawner == SpawnerFrame

SpecSpawner == InitSpawner /\ [][NextSpawner]_vars

----------------------------------------------------------------------------
\* The variant selection of spawnEnemy: a session from setup on in long
\* frames, each of which spawns; the first draw (p.random() against 0.4) and
\* the second (the predator bands) are taken at the band edges and on
\* either side of them, in thousandths; the hand is out of the picture

MaxVariantFrames == 2

BranchDraws == {0, 399, 400, 401, 500, 599, 600, 999}
BandDraws == {0, 349, 350, 649, 650, 849, 850, 999}

VariantInputs ==
    { [deltaTime |-> 1500,
       hand |-> [ready |-> TRUE, fresh |-> FALSE, result |-> "empty",
                 x |-> 500, y |-> 500],
       spawn |-> [prey |-> pd, band |-> bd, size |-> 500, speed |-> 500,
                  y |-> 200, side |-> 900],
       wave |-> 0, yNoise |-> 500, speedNoise |-> 500,
       burst |-> 500, ring |-> 500, ambient |-> 500] :
        pd \in BranchDraws, bd \in BandDraws }

VariantFrame == TickFrame(VariantInputs, MaxVariantFrames)

NextVariant == VariantFrame

SpecVariant == InitResize /\ [][NextVariant]_vars

----------------------------------------------------------------------------
\* The countdown of the shield from a hit to its expiry and beyond: a
\* session in which a hunter has reached the unshielded player, drawing
\* frames of 50 or 100 ms and, now and then, a frame of a second (the tab
\* was hidden); the hunter stays on the player, the hand is out of the
\* picture and the spawner draws prey

MaxFlashFrames == 10

FlashFrameTimes == {50, 100, 1000}

FlashInputs ==
    { [deltaTime |-> dt,
       hand |-> [ready |-> TRUE, fresh |-> FALSE, result |-> "empty",
                 x |-> 500, y |-> 500],
       spawn |-> ShakePrey, wave |-> 0, yNoise |-> 500, speedNoise |-> 500,
       burst |-> 500, ring |-> 500, ambient |-> 500] :
        dt \in FlashFrameTimes }

InitFlash ==
    /\ gameState = "PLAYING"
    /\ score = 0
    /\ highScores = <<>>
    /\ handLandmarkerRef = TRUE
    /\ Mounted
    /\ sessions = 1
    /\ width = 400 /\ height = 400
    /\ millis = 100 /\ frameCount = 0
    /\ scaleFactor = UpdateScaleFactor(400, 400)
    /\ plankton = Decorations(60, 400, 400)
    /\ bubbles = Decorations(15, 400, 400)
    /\ gameOverCalls = 0
    /\ handResult = "stale"
    /\ \E size \in HitterSizes : Stored(BeforeShake(size))

FlashFrame == TickFrame(FlashInputs, MaxFlashFrames)

NextFlash == FlashFrame

SpecFlash == InitFlash /\ [][NextFlash]_vars

----------------------------------------------------------------------------
\* Properties

IsTick == frameCount' = frameCount + 1

Happened(type) == \E k \in DOMAIN log : log[k].type = type

\* invulnTimer after the decrement at the head of the coming frame
TimerAfterDecrement ==
    IF invulnTimer > 0 THEN invulnTimer - (millis' - millis) ELSE invulnTimer

\* C1: whenever the player consumes an enemy of size S (the player being at
\* least as large), the player's size grows by exactly 0.1 * S, the score by
\* exactly floor(S / scale), and the enemy is not in the list when the frame
\* ends.
C1_Consume ==
    \A k \in DOMAIN log : log[k].type = "consume" =>
        /\ log[k].sizeBefore >= log[k].eSize
        /\ 10 * (log[k].sizeAfter - log[k].sizeBefore) = log[k].eSize
        /\ LET n == log[k].scoreAfter - log[k].scoreBefore
           IN /\ n * UnitsPerPixel * scaleFactor <= log[k].eSize * 800
              /\ log[k].eSize * 800 < (n + 1) * UnitsPerPixel * scaleFactor
        /\ \A j \in DOMAIN enemies : enemies[j].id # log[k].id

C1_Witness ==
    \E k \in DOMAIN log :
        /\ log[k].type = "consume"
        /\ log[k].eSize > 0
        /\ log[k].scoreAfter > log[k].scoreBefore

\* C2: a collision with a larger enemy lowers health only if invulnTimer is
\* <= 0 at that moment; right after such a hit the timer is exactly 1500; in
\* every later frame without a hit the timer does not increase, and it stays
\* where it is once it is at or below 0.
C2_Shield ==
    /\ \A k \in DOMAIN log :
          /\ log[k].type = "damage" =>
                /\ log[k].timerBefore <= 0
                /\ log[k].timerAfter = 1500
                /\ log[k].healthAfter < log[k].healthBefore
          /\ log[k].type = "shielded" =>
                /\ log[k].timerBefore > 0
                /\ log[k].healthAfter = log[k].healthBefore
    /\ Happened("damage") => invulnTimer = 1500

C2_TimerStep ==
    (IsTick /\ ~Happened("damage")') =>
        /\ invulnTimer' <= invulnTimer
        /\ invulnTimer <= 0 => invulnTimer' = invulnTimer

\* C2: hits land only on an expired timer and set it to 1500 (C2_Shield),
\* and a frame without a hit never raises the timer (C2_TimerStep).
C2_InvulnerabilityWindow == []C2_Shield /\ [][C2_TimerStep]_vars

C2_Witness ==
    /\ playerHealth < MaxHP
    /\ invulnTimer > 0
    /\ invulnTimer < 1500
    /\ Happened("shielded")

\* C3: onGameOver and setGameState(GAME_OVER) are called when and only when a
\* hit has left health at or below 0, at most once in a session, and the cause
\* of death reported is the variant of the enemy that dealt that last hit.
C3_GameOver ==
    /\ gameOverCalls <= 1
    /\ \A k \in DOMAIN log : log[k].type = "damage" =>
          (log[k].healthAfter <= 0
              <=> /\ k < Len(log)
                  /\ log[k + 1].type = "gameover"
                  /\ log[k + 1].id = log[k].id)
    /\ \A k \in DOMAIN log : log[k].type = "gameover" =>
          /\ k > 1
          /\ log[k - 1].type = "damage"
          /\ log[k - 1].healthAfter <= 0
          /\ log[k - 1].id = log[k].id
          /\ causeOfDeath = log[k].variant
          /\ pendingGameState = "GAME_OVER"
          /\ gameOverCalls = 1
    /\ (gameState = "GAME_OVER" \/ pendingGameState = "GAME_OVER")
          => gameOverCalls = 1

C3_Witness ==
    /\ Happened("gameover")
    /\ causeOfDeath = "titan"
    /\ Len(enemies) > 1

\* C4: in every state health is within [0, 100]; no run of hits leaves it
\* below 0.
C4_HealthRange == playerHealth >= 0 /\ playerHealth <= MaxHP

\* C5: health never exceeds 100, whether raised by the regeneration of a
\* frame or by the +10 of a consume.
C5_HealthCap ==
    /\ playerHealth <= maxHealth * HealthUnits
    /\ \A k \in DOMAIN log : log[k].type # "reset" =>
          log[k].healthAfter <= maxHealth * HealthUnits

C5_Witness ==
    \E k \in DOMAIN log :
        /\ log[k].type = "consume"
        /\ log[k].healthBefore + 10 * HealthUnits > MaxHP
        /\ log[k].healthAfter = MaxHP

\* C6 as stated: in a frame whose timer, after its decrement, is still above
\* 0, no step raises health.
C6_NoIncreaseWhileInvulnerable ==
    [][(IsTick /\ gameState = "PLAYING" /\ TimerAfterDecrement > 0) =>
          /\ playerHealth' <= playerHealth
          /\ \A k \in DOMAIN log' : log'[k].healthAfter <= log'[k].healthBefore]_vars

\* C6: in a frame whose timer, after its decrement, is still above 0, the
\* per-frame regeneration does not raise health: health changes only in the
\* consume branch, by the +10 it restores (capped at 100).
C6_NoPassiveRegen ==
    [][(IsTick /\ gameState = "PLAYING" /\ TimerAfterDecrement > 0) =>
          /\ IF log' = <<>> THEN playerHealth' = playerHealth
             ELSE /\ log'[1].healthBefore = playerHealth
                  /\ log'[Len(log')].healthAfter = playerHealth'
          /\ \A k \in DOMAIN log' :
                log'[k].healthAfter # log'[k].healthBefore =>
                   /\ log'[k].type = "consume"
                   /\ log'[k].healthAfter =
                         Min(log'[k].healthBefore + 10 * HealthUnits, MaxHP)]_vars

C6_Witness ==
    \E k \in DOMAIN log :
        /\ log[k].type = "consume"
        /\ log[k].timerBefore > 0
        /\ log[k].healthAfter > log[k].healthBefore

WasReset == log # <<>> /\ log[Len(log)].type = "reset"

\* C7: resetGame leaves health 100, score 0, invulnerability timer 0, screen
\* shake 0 and empty lists of enemies, particles and shockwaves, whatever the
\* session before it was.
C7_Reset ==
    WasReset =>
        /\ playerHealth = MaxHP
        /\ scoreRef = 0
        /\ pendingScore = 0
        /\ invulnTimer = 0
        /\ screenShake = 0
        /\ enemies = <<>>
        /\ particles = <<>>
        /\ shockwaves = <<>>

C7_Witness ==
    /\ WasReset
    /\ gameState = "GAME_OVER"
    /\ causeOfDeath # ""
    /\ playerHealth = MaxHP

\* C8: after resetGame every scalar of the session has its initial value:
\* score, health, invulnerability timer, screen shake, damage flash and the
\* danger intensity, which is 0.
C8_ResetAll ==
    WasReset =>
        /\ scoreRef = 0
        /\ playerHealth = MaxHP
        /\ invulnTimer = 0
        /\ screenShake = 0
        /\ damageEffectVal = 0
        /\ dangerIntensity = 0


\* C9: an enemy leaves the list in a frame only if the player consumed it in
\* that frame or its own x is beyond the margin of 300 * scale; no frame
\* removes an enemy of which neither is true.
C9_RemovalCause ==
    [][IsTick =>
          \A j \in DOMAIN enemies :
              (\A i \in DOMAIN enemies' : enemies'[i].id # enemies[j].id) =>
                  \E k \in DOMAIN log' :
                      /\ log'[k].id = enemies[j].id
                      /\ \/ log'[k].type = "consume"
                         \/ /\ log'[k].type = "pruned"
                            /\ \/ log'[k].ex < -Sf(300)
                               \/ log'[k].ex > width * UnitsPerPixel + Sf(300)]_vars

\* C10: the interval of a frame is max(600, 1500 - 5 * score), but exactly
\* 300 when fewer than 8 enemies are alive, and otherwise at most 800 when
\* fewer than 15 are alive; with score 0 and 3 enemies alive it is 300.
C10_SpawnInterval ==
    activeSpawnInterval # 0 =>
        LET n == Len(enemies)
            base == IF 1500 - 5 * scoreRef > 600 THEN 1500 - 5 * scoreRef ELSE 600
        IN /\ n < 8 => activeSpawnInterval = 300
           /\ (n >= 8 /\ n < 15) =>
                 activeSpawnInterval = IF base > 800 THEN 800 ELSE base
           /\ n >= 15 => activeSpawnInterval = base
           /\ (scoreRef = 0 /\ n = 3) => activeSpawnInterval = 300

C10_Witness ==
    /\ activeSpawnInterval = 300
    /\ scoreRef = 0
    /\ Len(enemies) = 3

\* C11: during a session the score never goes down: no frame lowers
\* scoreRef, no consume leaves it lower than it found it, and the value a
\* frame hands to setScore is at least the value handed over before.
C11_ScoreMonotone ==
    [][IsTick =>
        /\ scoreRef' >= scoreRef
        /\ pendingScore' >= pendingScore
        /\ \A k \in DOMAIN log' : log'[k].type = "consume" =>
               /\ log'[k].scoreAfter >= log'[k].scoreBefore
               /\ log'[k].scoreBefore >= scoreRef
               /\ log'[k].scoreAfter <= pendingScore']_vars

\* a second meal of the session: the score was positive and has grown
C11_Witness ==
    /\ gameState = "PLAYING"
    /\ \E k \in DOMAIN log :
          /\ log[k].type = "consume"
          /\ log[k].scoreBefore > 0
          /\ log[k].scoreAfter > log[k].scoreBefore
          /\ pendingScore = log[k].scoreAfter

\* C12: after every frame and every mutation (reset, spawn, consume,
\* resize) the size of the player and of every enemy in the list is
\* strictly positive.
C12_PositiveSizes ==
    /\ player.size > 0
    /\ \A j \in DOMAIN enemies : enemies[j].size > 0

IsResize == width' # width \/ height' # height

\* C17: a resize recomputes the scale factor as min(width, height) / 800
\* and, when the game state is not PLAYING, leaves plankton and bubbles
\* initialised for the new viewport.
C17_Resize ==
    [][IsResize =>
        /\ scaleFactor' = Min(width', height')
        /\ gameState # "PLAYING" =>
               /\ plankton' = Decorations(60, width', height')
               /\ bubbles' = Decorations(15, width', height')]_vars

\* C13: an enemy is a predator in a frame exactly when its size is strictly
\* greater than the player's size in that frame.  An enemy no larger than the
\* player wanders: it does not steer at the player, does not pull the player
\* and adds nothing to the danger.  A larger enemy within its detection range
\* steers at the player and adds its danger, and a titan pulls the player.
C13_Predator ==
    [][(IsTick /\ Len(enemies) = 1 /\ Len(enemies') = 1) =>
        LET e == enemies[1]
            d == Dist(player.x, player.y, e.x, e.y)
        IN /\ e.size <= player.size =>
                 /\ enemies'[1] = Advance(WanderVelocity(e, 500, 500))
                 /\ player' = player
                 /\ screenShake' <= screenShake
                 /\ dangerIntensity' = Lerp(dangerIntensity, 0, 100)
           /\ (e.size > player.size /\ d < DetectionRange(e.variant)) =>
                 /\ enemies'[1] = Advance(ChaseVelocity(e, player', 0))
                 /\ dangerIntensity' =
                        Lerp(dangerIntensity, Danger(e, d), 100)
                 /\ dangerIntensity' > Lerp(dangerIntensity, 0, 100)
                 /\ e.variant = "titan" <=> player' # player]_vars

\* an enemy exactly as large as the player, well within its detection
\* range, has been through a frame and has raised no danger
C13_Witness ==
    /\ gameState = "PLAYING"
    /\ frameCount > 0
    /\ Len(enemies) = 1
    /\ enemies[1].size = player.size
    /\ enemies[1].variant # "prey"
    /\ Dist(player.x, player.y, enemies[1].x, enemies[1].y) < Sf(150)
    /\ dangerIntensity = 0

\* C14: the screen shake is never negative; while nothing adds to it every
\* frame lowers it, and after finitely many frames it is exactly 0 and
\* stays there.
C14_ShakeSettles ==
    /\ [](screenShake >= 0)
    /\ [][(IsTick /\ screenShake > 0) => screenShake' < screenShake]_vars
    /\ [][(IsTick /\ screenShake = 0) => screenShake' = 0]_vars
    /\ <>[](screenShake = 0)

\* late in the decay of the largest shake: it is still there, under one
\* pixel, and the next frame cuts it off
C14_Witness ==
    /\ frameCount > 40
    /\ screenShake > 0
    /\ screenShake < UnitsPerPixel
    /\ invulnTimer > 0

\* C15: a shockwave (maxRadius 100 and currentRadius 10 at scale 1, and any
\* other maxRadius drawn) grows strictly in every frame it lives; its alpha
\* falls by 10 a frame and it leaves the list in the frame its alpha
\* reaches 0; once its radius is within 5 of maxRadius at most 10 frames
\* are left to it, and by its last frame the radius has come that close.
C15_Shockwave ==
    /\ [](\A k \in DOMAIN shockwaves :
             LET sw == shockwaves[k]
             IN /\ sw.alpha > 0 /\ sw.alpha <= 200
                /\ sw.maxRadius - sw.currentRadius <= Sf(5) => sw.alpha <= 100
                /\ sw.alpha <= 10 => sw.maxRadius - sw.currentRadius <= Sf(5))
    /\ [][(IsTick /\ shockwaves # <<>>) =>
            IF shockwaves[1].alpha > 10
            THEN /\ Len(shockwaves') = Len(shockwaves)
                 /\ shockwaves'[1].currentRadius > shockwaves[1].currentRadius
                 /\ shockwaves'[1].alpha = shockwaves[1].alpha - 10
            ELSE shockwaves' = Tail(shockwaves)]_vars

\* the shockwave of maxRadius 100 in its last frame, its radius at 100
C15_Witness ==
    /\ Len(shockwaves) = 1
    /\ shockwaves[1].maxRadius = 100 * UnitsPerPixel
    /\ shockwaves[1].alpha = 10
    /\ shockwaves[1].currentRadius >= 100 * UnitsPerPixel
    /\ scaleFactor = 800

\* C16: a game-over write (the effect that runs when the game state has
\* become GAME_OVER, or the score has changed in it) leaves a leaderboard
\* of at most 5 entries in descending order of score: the old entries and
\* the new score, sorted, cut to the first five.
C16_Leaderboard ==
    [][(gameState' = "GAME_OVER" /\ <<gameState', score'>> # <<gameState, score>>) =>
        /\ Len(highScores') = Min(5, Len(highScores) + 1)
        /\ Descending(highScores')
        /\ \/ \E i \in DOMAIN highScores' : highScores'[i] = score'
           \/ Len(highScores') = 5 /\ highScores'[5] >= score'
        /\ \A v \in ScoreSamples :
              LET old == Cardinality({i \in DOMAIN highScores : highScores[i] = v})
                  new == Cardinality({i \in DOMAIN highScores' : highScores'[i] = v})
              IN new <= old + (IF v = score' THEN 1 ELSE 0)]_vars

\* a full leaderboard after a game over whose score did not make it
C16_Witness ==
    /\ gameState = "GAME_OVER"
    /\ finalSize > 0
    /\ Len(highScores) = 5
    /\ highScores[1] > highScores[5]
    /\ highScores[5] > score
    /\ score > 0

\* C18: in a frame in which the video is not ready, has no new frame, the
\* detection finds no hand or throws, the player stays where it was and the
\* frame goes on as ever: the time advances, a due spawn takes place, the
\* enemies move, the particles age, and no game state is reported.  A video
\* frame that failed is marked as seen (it is not tried again), one that was
\* not looked at is not.
C18_HandFailure ==
    [][(IsTick /\ handResult' \in {"unready", "stale", "empty", "throws"}) =>
        /\ player'.x = player.x /\ player'.y = player.y
        /\ pendingGameState' = pendingGameState
        /\ millis' > millis
        /\ SpawnDue(Refs, millis') => nextId' = nextId + 1
        /\ \A j \in DOMAIN enemies' : \A i \in DOMAIN enemies :
              enemies[i].id = enemies'[j].id =>
                 enemies'[j].x = enemies[i].x + enemies'[j].vx
        /\ Len(particles') > Len(particles)
        /\ \A k \in DOMAIN particles :
              particles'[k].alpha = particles[k].alpha - 1
        /\ lastVideoTime' =
              IF handResult' \in {"empty", "throws"}
              THEN NextVideoTime(lastVideoTime) ELSE lastVideoTime]_vars

\* the detection has thrown in a frame of a session in which the hand had
\* moved the player before, with a prey in the water
C18_Witness ==
    /\ handResult = "throws"
    /\ frameCount > 2
    /\ player.x < (width * UnitsPerPixel) \div 2
    /\ player.vx < 0
    /\ enemies # <<>>
    /\ particles # <<>>

\* C19: an enemy beyond the margin of 300 * scale is discarded without a
\* collision being resolved for it: no frame both consumes an enemy, or
\* lets it hit the player, and discards that same enemy as out of bounds.
C19_DiscardWithoutCollision ==
    \A k, l \in DOMAIN log :
        ~ /\ log[k].type \in {"consume", "damage", "shielded"}
          /\ log[l].type = "pruned"
          /\ log[l].id = log[k].id

\* C20: an enemy that spawnEnemy has added in a frame is still in the list
\* when that frame ends: its spawn position, twice its size beyond the
\* edge, is never beyond the margin of 300 * scale.
C20_SpawnedStays ==
    [][(IsTick /\ nextId' = nextId + 1) =>
          \E j \in DOMAIN enemies' : enemies'[j].id = nextId]_vars

\* C21: a session that ends in GAME_OVER appends one leaderboard entry, of
\* the session's final score, and shows that score on the game-over screen:
\* the render that enters GAME_OVER reports the score the session has
\* reached, and as long as the state stays GAME_OVER neither the score
\* shown nor the leaderboard changes again, the new sketch's resetGame
\* and its setScore(0) included.
C21_OneEntryPerSession ==
    [][gameState' = "GAME_OVER" =>
          IF gameState = "GAME_OVER"
          THEN score' = score /\ highScores' = highScores
          ELSE score' = scoreRef /\ highScores' = SaveHighScore(highScores, scoreRef)]_vars

\* C22: once a frame has triggered game over, the player's size and the
\* score are not changed again in that frame: the final size reported is
\* floor(player.size / scale) as the frame leaves it, and no enemy is
\* consumed after the trigger.
C22_NothingAfterGameOver ==
    \A k \in DOMAIN log : log[k].type = "gameover" =>
        /\ finalSize = FloorDivSf(player.size)
        /\ \A l \in DOMAIN log : log[l].type = "consume" => l < k

\* C23: after every frame the player's velocity is the change of the
\* player's position over that frame and its speed the Euclidean length of
\* that velocity, also in a frame without a new hand sample and in a frame
\* in which a titan's pull has moved the player.
C23_VelocityIsDelta ==
    [][IsTick =>
          /\ player'.vx = player'.x - player.x
          /\ player'.vy = player'.y - player.y
          /\ player'.speed = Dist(0, 0, player'.vx, player'.vy)]_vars

\* C24: a predatory titan pulls the player towards itself only within a
\* radius closer than its detection radius of 500 * scale: in a frame
\* without a hand sample, a lone titan larger than the player that is within
\* detection range but not within 200 * scale (the closer radius of the
\* titan's effects) chases and leaves the player where it was.
C24_PullOnlyClose ==
    [][(/\ IsTick
        /\ gameState = "PLAYING"
        /\ handResult' # "landmarks"
        /\ Len(enemies) = 1
        /\ enemies[1].variant = "titan"
        /\ Chases(enemies[1], player,
                  Dist(player.x, player.y, enemies[1].x, enemies[1].y))
        /\ Dist(player.x, player.y, enemies[1].x, enemies[1].y) >= Sf(200))
        => /\ player'.x = player.x
           /\ player'.y = player.y]_vars

\* the eat/damage resolution of the enemy with that id, in the frame taken
Resolved(id) ==
    \E k \in DOMAIN log' :
        log'[k].id = id /\ log'[k].type \in {"consume", "damage", "shielded"}

\* C25: in a frame, the eat/damage resolution of an enemy is triggered
\* exactly when the distance between the centres of the player and of the
\* enemy (as the loop measures it on reaching the enemy) is below
\* 0.6 * (player.size + enemy.size).  The outcome is a consume exactly when
\* player.size >= enemy.size, a tie included, and the damage branch
\* otherwise: an enemy of equal or smaller size never damages the player.
C25_Resolution ==
    [][(/\ IsTick
        /\ gameState = "PLAYING"
        /\ handResult' # "landmarks"
        /\ Len(enemies) = 1
        /\ nextId' = nextId)
        => LET e == enemies[1]
               d == Dist(player.x, player.y, e.x, e.y)
               touches == 10 * d < 6 * (player.size + e.size)
           IN /\ Resolved(e.id) <=> touches
              /\ \A k \in DOMAIN log' :
                    /\ log'[k].type = "consume" => player.size >= e.size
                    /\ log'[k].type \in {"damage", "shielded"} => player.size < e.size
              /\ (touches /\ player.size >= e.size) =>
                    /\ \E k \in DOMAIN log' : log'[k].type = "consume"
                    /\ playerHealth' >= playerHealth
                    /\ enemies' = <<>>
              /\ (touches /\ player.size < e.size) =>
                    /\ \E k \in DOMAIN log' : log'[k].type \in {"damage", "shielded"}
                    /\ player'.size = player.size]_vars

\* a tie: the player has consumed an enemy of exactly its own size
C25_Witness ==
    /\ gameState = "PLAYING"
    /\ \E k \in DOMAIN log :
          /\ log[k].type = "consume"
          /\ log[k].sizeBefore = log[k].eSize
          /\ log[k].sizeAfter > log[k].sizeBefore

\* C26: a frame adds at most one enemy, and only when the time since the
\* last spawn, at that frame's time, strictly exceeds the interval computed
\* in that frame; a spawn sets the last-spawn time to the frame's time, and
\* a frame in which the game state is not PLAYING spawns nothing.
C26_Spawner ==
    [][IsTick =>
        /\ nextId' \in {nextId, nextId + 1}
        /\ Len(enemies') <= Len(enemies) + 1
        /\ nextId' = nextId + 1 =>
              /\ gameState = "PLAYING"
              /\ millis' - lastSpawnTime >
                    ActiveSpawnInterval(scoreRef, Len(enemies))
              /\ lastSpawnTime' = millis'
        /\ nextId' = nextId => lastSpawnTime' = lastSpawnTime
        /\ gameState # "PLAYING" => enemies' = enemies]_vars

\* the second spawn of a session has just taken place, more than 300 ms
\* after the first: both enemies are in the list
C26_Witness ==
    /\ gameState = "PLAYING"
    /\ nextId = 3
    /\ Len(enemies) = 2
    /\ lastSpawnTime = millis
    /\ millis = 750

\* the enemy spawnEnemy has added in the last frame
Spawned == { e \in {enemies[j] : j \in DOMAIN enemies} : e.id = nextId - 1 }

\* the predator bands of the second draw
BandOf(band) ==
    IF band < 350 THEN "hunter"
    ELSE IF band < 650 THEN "dasher"
    ELSE IF band < 850 THEN "viper"
    ELSE "titan"

\* C27 as stated: spawnEnemy takes the predator branch for 60% of the first
\* draw and the prey branch for the other 40% (whichever end of [0, 1) the
\* predator branch takes, a draw between 0.4 and 0.6 is in it, and at most
\* 40% of the draws are prey); in the predator branch the second draw
\* selects hunter for [0, 0.35), dasher for [0.35, 0.65), viper for
\* [0.65, 0.85) and titan for [0.85, 1).
C27_VariantBands ==
    spawnDraw # NoDraw =>
        \A e \in Spawned :
            /\ (400 < spawnDraw.prey /\ spawnDraw.prey < 600) => e.variant # "prey"
            /\ e.variant # "prey" => e.variant = BandOf(spawnDraw.band)

\* C27 amended: spawnEnemy takes the prey branch when the first draw is
\* above 0.4, 60% of the draws, and the predator branch for the other 40%;
\* in the predator branch the second draw selects hunter for [0, 0.35),
\* dasher for [0.35, 0.65), viper for [0.65, 0.85) and titan for [0.85, 1).
C27_VariantBandsAmended ==
    spawnDraw # NoDraw =>
        \A e \in Spawned :
            /\ e.variant = "prey" <=> spawnDraw.prey > 400
            /\ e.variant # "prey" => e.variant = BandOf(spawnDraw.band)

\* a first draw of 0.4 exactly is a predator still, a second of 0.85 a titan
C27_Witness ==
    /\ spawnDraw # NoDraw
    /\ spawnDraw.prey = 400
    /\ spawnDraw.band = 850
    /\ \E e \in Spawned : e.variant = "titan"

\* the frame that led to this state has drawn the full-screen red flash
FlashShown == DrawDangerOverlay(Refs)

\* C28 as stated: the full-screen red flash is shown only in the final
\* window of the invulnerability countdown, the last part before the timer
\* expires, and not in the period immediately after the hit: not in the
\* frame of the hit, and not in the first half of the countdown.
C28_FlashInFinalWindow ==
    [][(IsTick /\ FlashShown') =>
          /\ ~\E k \in DOMAIN log' : log'[k].type = "damage"
          /\ 2 * invulnTimer' <= 1500]_vars

\* C28 amended: the full-screen red flash is shown only in the first
\* window of the countdown, while more than 1300 of its 1500 ms are left:
\* from the frame of the hit on, frame after frame without a gap, as long
\* as less than 200 ms have been counted down; it is not shown again
\* before the next hit, the final window of the countdown included.
C28_FlashAfterHit ==
    [][IsTick =>
        /\ (\E k \in DOMAIN log' : log'[k].type = "damage") =>
               FlashShown' /\ invulnTimer' = 1500
        /\ (FlashShown' /\ ~\E k \in DOMAIN log' : log'[k].type = "damage") =>
               /\ FlashShown
               /\ invulnTimer' = invulnTimer - (millis' - millis)
               /\ 1500 - invulnTimer' < 200
        /\ (0 < invulnTimer' /\ invulnTimer' <= 200) => ~FlashShown']_vars

\* the final window of a countdown: 100 ms are left and no flash is drawn
C28_Witness ==
    /\ gameState = "PLAYING"
    /\ invulnTimer = 100
    /\ ~FlashShown
    /\ Happened("shielded")

\* C29: ending a session releases the audio and the old render loop.  Once
\* the effects of a game-state change have run, an AudioContext is open
\* only if the state is PLAYING; there is never more than one AudioContext
\* open nor more than one p5 instance; and the sketch made for the new
\* state has run resetGame, and drawn no frame, when the effects are done.
C29_Resources ==
    /\ [](/\ openContexts > 0 => gameState = "PLAYING"
          /\ audioCtxRef = "open" <=> openContexts = 1
          /\ openContexts <= 1
          /\ p5Instances <= 1)
    /\ [][gameState' # gameState =>
            /\ frameCount' = 0 /\ millis' = 0
            /\ log' # <<>> /\ log'[Len(log')].type = "reset"
            /\ enemies' = <<>> /\ scoreRef' = 0
            /\ playerHealth' = MaxHP /\ invulnTimer' = 0
            /\ player'.size = SfOf(20, scaleFactor')
            /\ p5Instances' = 1
            /\ openContexts' = IF gameState' = "PLAYING" THEN 1 ELSE 0]_vars

\* a session has ended: the game-over screen is up, the audio is closed and
\* the reference dropped, and the one sketch there is has just been set up
C29_Witness ==
    /\ gameState = "GAME_OVER"
    /\ finalSize > 0
    /\ openContexts = 0
    /\ audioCtxRef = "null"
    /\ p5Instances = 1
    /\ WasReset
    /\ frameCount = 0

\* C30: in every frame of its life the radius of a shockwave is at most its
\* maxRadius: the expansion comes up to maxRadius and never beyond it
\* before the shockwave is removed.
C30_RadiusWithinMax ==
    \A k \in DOMAIN shockwaves :
        shockwaves[k].currentRadius <= shockwaves[k].maxRadius

====
